---- MODULE Spec2Model ----
(***************************************************************************)
(* Talon watchdog (infra/talon): the watchdog tick loop, the escalation    *)
(* ladder (heal -> agents -> SOS) and the hot reload of the dynamic        *)
(* service probes, modelled from the Rust sources.                         *)
(*                                                                         *)
(* One iteration of run_watchdog_loop is cut into steps at the points      *)
(* where the loop waits for subprocesses; `pc` is the position of the      *)
(* watchdog thread.  Every step contains at most one call of               *)
(* state::transition.  The wall clock (`now`) is advanced by the           *)
(* environment between any two steps.                                      *)
(*                                                                         *)
(* Abstractions: a probe's raw output is "out"; timeouts and durations of  *)
(* probes are left out; Option<u64> is an integer with None == -1.         *)
(***************************************************************************)
EXTENDS Integers, Sequences, FiniteSets, TLC

(* ----------------------------- bounds ---------------------------------- *)
\* last value of the wall clock (seconds) the model explores
MaxTime == 3
\* at most this many probes fail in one probe run
MaxFailed == 2
\* at most this many rewrites of services.toml
MaxEdits == 1
\* probes.consecutive_failures_before_escalate, scaled down
FailuresBeforeEscalate == 2
\* the value at which the failure counter saturates (u32::MAX, scaled down)
SatMax == 3
\* escalation.agent_cooldown_secs, scaled down to the model's clock
AgentCooldown == 2
\* escalation.sos_cooldown_secs, scaled down
SosCooldown == 2
\* escalation.critical_threshold_secs, scaled down
CriticalThreshold == 1

\* at most this many worker children are spawned
MaxSpawns == 3
\* worker.restart_backoff_max_secs, scaled down
BackoffMax == 4
\* worker.health_failures_before_restart, scaled down
HealthFailuresBeforeRestart == 2
\* worker.drain_timeout_secs, scaled down
DrainTimeout == 2

\* a failed-probe list handed to a function on its own has at most this
\* many entries
MaxFailedList == 3

\* check_interval_secs in quanta of 250 ms (4 per second), scaled down
SleepSteps == 2
\* worker.startup_sync_delay_secs and worker.health_interval_secs, and the
\* last reading of Instant::now(), in seconds
StartupSyncDelaySecs == 3
HealthIntervalSecs == 2
MaxInstant == 9

\* Option<u64>::None
None == -1

(* ----------------------------- helpers --------------------------------- *)
Min(S) == CHOOSE x \in S : \A y \in S : x <= y

\* str::starts_with / str::strip_prefix
StartsWith(s, p) == Len(s) >= Len(p) /\ SubSeq(s, 1, Len(p)) = p
StripPrefix(s, p) == SubSeq(s, Len(p) + 1, Len(s))

\* Iterator::find over a probe list: index of the first entry named n, 0 if none
FindByName(probes, n) ==
    LET idx == {i \in 1..Len(probes) : probes[i].name = n}
    IN IF idx = {} THEN 0 ELSE Min(idx)

\* the elements of a sequence
Range(s) == {s[i] : i \in 1..Len(s)}

\* variant: the counter wraps to zero instead of saturating
WrappingInc(n) == IF n >= SatMax THEN 0 ELSE n + 1

\* u32::saturating_add(1)
SaturatingInc(n) == IF n >= SatMax THEN SatMax ELSE n + 1

\* u64::saturating_sub
SaturatingSub(a, b) == IF a >= b THEN a - b ELSE 0

(* ------------------------- services.toml ------------------------------- *)
\* A services file is a sequence of lines, comments already stripped:
\* a section header [sec] or a key = value pair.
Sec(s) == [sec |-> s, key |-> "", value |-> ""]
KV(k, v) == [sec |-> "", key |-> k, value |-> v]

\* default_services_toml
DefaultServices ==
    << Sec("launchd.voice_agent"), KV("label", "com.joel.voice-agent"),
       KV("critical", "true"), KV("timeout_secs", "5"),
       Sec("http.voice_agent"), KV("url", "http://127.0.0.1:8081/"),
       KV("critical", "true"), KV("timeout_secs", "5") >>

\* a user file with one non-critical HTTP service that has no launchd entry,
\* and a critical user entry that reuses the built-in name `worker`
ApiServices ==
    << Sec("http.api"), KV("url", "http://127.0.0.1:9000/"),
       Sec("http.worker"), KV("url", "http://127.0.0.1:3112/"),
       KV("critical", "true") >>

\* a user file with a non-critical launchd service
MailServices ==
    << Sec("launchd.mail"), KV("label", "com.joel.mail"),
       KV("critical", "false") >>

\* an invalid file: [http.voice_agent] without url
MissingUrlServices ==
    << Sec("launchd.voice_agent"), KV("label", "com.joel.voice-agent"),
       Sec("http.voice_agent"), KV("critical", "true") >>

\* an invalid file: a boolean that is not true/false
BadBoolServices ==
    << Sec("launchd.mail"), KV("label", "com.joel.mail"),
       KV("critical", "yes") >>

\* a user file that repeats the built-in `worker` probe as it is
BuiltinCopyServices ==
    << Sec("http.worker"), KV("url", "http://localhost:3111/api/inngest") >>

\* a user file with two launchd services, one of them with an HTTP probe
BothServices ==
    << Sec("launchd.mail"), KV("label", "com.joel.mail"),
       Sec("launchd.voice_agent"), KV("label", "com.joel.voice-agent"),
       Sec("http.voice_agent"), KV("url", "http://127.0.0.1:8081/") >>

ValidFiles == {DefaultServices, ApiServices, MailServices}
FileContents ==
    ValidFiles \cup {MissingUrlServices, BadBoolServices, BuiltinCopyServices}

\* BTreeMap iteration order (lexicographic) of the section names in use
NameOrder == << "api", "mail", "voice_agent", "worker" >>
\* BTreeSet iteration order of the launchd labels in use
LabelOrder == << "com.joel.mail", "com.joel.voice-agent" >>

\* parse_toml_int accepts decimal literals
UintLiterals == {"5", "10", "30"}

EmptyMap == [x \in {} |-> x]
MapPut(m, k, v) == [x \in DOMAIN m \cup {k} |-> IF x = k THEN v ELSE m[x]]
ParseErr == [ok |-> FALSE, http |-> << >>, launchd |-> << >>]

\* the `match key` arm for one key/value line of a section; ok = FALSE when
\* parse_toml_string / parse_toml_int / parse_toml_bool returns Err
ApplyKey(probe, target, line) ==
    CASE line.key = target ->
            IF line.value = "" THEN [ok |-> FALSE, probe |-> probe]
            ELSE [ok |-> TRUE, probe |-> [probe EXCEPT ![target] = line.value]]
      [] line.key = "timeout_secs" ->
            [ok |-> line.value \in UintLiterals, probe |-> probe]
      [] line.key = "critical" ->
            IF line.value \in {"true", "false"}
            THEN [ok |-> TRUE, probe |-> [probe EXCEPT !.critical = (line.value = "true")]]
            ELSE [ok |-> FALSE, probe |-> probe]
      [] OTHER -> [ok |-> TRUE, probe |-> probe]

\* the final loops of parse_services_toml: sections in key order, each
\* required to carry its target key
SectionsToProbes(sections, target) ==
    LET names == SelectSeq(NameOrder, LAMBDA n : n \in DOMAIN sections)
    IN [ok |-> \A n \in DOMAIN sections : sections[n][target] # "",
        probes |-> [i \in 1..Len(names) |-> sections[names[i]]]]

RECURSIVE ParseLines(_, _, _, _, _)
ParseLines(lines, i, section, http_sections, launchd_sections) ==
    IF i > Len(lines)
    THEN LET h == SectionsToProbes(http_sections, "url")
             l == SectionsToProbes(launchd_sections, "label")
         IN IF h.ok /\ l.ok
            THEN [ok |-> TRUE, http |-> h.probes, launchd |-> l.probes]
            ELSE ParseErr
    ELSE LET line == lines[i] IN
         IF line.sec # ""
         THEN ParseLines(lines, i + 1, line.sec, http_sections, launchd_sections)
         ELSE IF StartsWith(section, "http.")
         THEN LET name == StripPrefix(section, "http.")
                  probe == IF name \in DOMAIN http_sections
                           THEN http_sections[name]
                           ELSE [name |-> name, url |-> "", critical |-> FALSE]
                  r == ApplyKey(probe, "url", line)
              IN IF name = ""
                 THEN ParseLines(lines, i + 1, section, http_sections, launchd_sections)
                 ELSE IF ~r.ok THEN ParseErr
                 ELSE ParseLines(lines, i + 1, section,
                                 MapPut(http_sections, name, r.probe), launchd_sections)
         ELSE IF StartsWith(section, "launchd.")
         THEN LET name == StripPrefix(section, "launchd.")
                  probe == IF name \in DOMAIN launchd_sections
                           THEN launchd_sections[name]
                           ELSE [name |-> name, label |-> "", critical |-> FALSE]
                  r == ApplyKey(probe, "label", line)
              IN IF name = ""
                 THEN ParseLines(lines, i + 1, section, http_sections, launchd_sections)
                 ELSE IF ~r.ok THEN ParseErr
                 ELSE ParseLines(lines, i + 1, section,
                                 http_sections, MapPut(launchd_sections, name, r.probe))
         ELSE ParseLines(lines, i + 1, section, http_sections, launchd_sections)

parse_services_toml(raw) == ParseLines(raw, 1, "", EmptyMap, EmptyMap)

builtin_http_service_probes ==
    << [name |-> "inngest", url |-> "http://localhost:8288/health", critical |-> FALSE],
       [name |-> "typesense", url |-> "http://localhost:8108/health", critical |-> FALSE],
       [name |-> "worker", url |-> "http://localhost:3111/api/inngest", critical |-> FALSE] >>

(* ------------------------------ state ---------------------------------- *)
VARIABLES
    pc,                 \* position of the watchdog thread in run_watchdog_loop
    current_state,      \* PersistentState (its field current_state is the label)
    critical_since,     \* local of run_watchdog_loop, Option<u64>
    config,             \* Config: the dynamic probe lists and the thresholds
    service_tracker,    \* ServiceProbeTracker
    services_file,      \* services.toml: its lines and its modification time
    RELOAD_REQUESTED,   \* AtomicBool
    SHUTDOWN_REQUESTED, \* AtomicBool
    RECEIVED_SIGNAL,    \* AtomicI32
    now,                \* the wall clock read by now_unix_secs
    failed_probes,      \* local of the loop body
    should_escalate,    \* local of the loop body
    heal_outcome,       \* local of the loop body
    agent_outcome,      \* local of the loop body
    snapshot,           \* health::SNAPSHOT
    state_file,         \* state.json
    tiers,              \* tier functions called in the current tick, in order
    cmds,               \* external commands run by the tiers in the current tick
    refresh_result,     \* what refresh_service_probes returned in the current tick
    sos_outcome,        \* what run_sos returned in the current tick
    prev_sos_outcome,   \* what run_sos returned in the tick before
    sos_sent_at,        \* time of the last SOS tier that delivered a message
    agents_run_at,      \* time of the last agents tier that ran a command
    tick_from           \* the label at the start of the current tick

\* run_worker_supervisor (worker.rs), the second thread of the process
VARIABLES
    wpc,                \* position of the supervisor thread
    children,           \* every spawned worker child: running, exited or reaped
    backoff_secs,       \* local of run_worker_supervisor
    WORKER_RESTARTS,    \* AtomicU32
    consecutive_health_failures, \* local of monitor_child
    synced,             \* local of monitor_child
    sent,               \* signals sent to the current child, in order
    drain_left,         \* seconds left to the deadline of shutdown_child
    drain_for,          \* which call of shutdown_child is running
    sleep_left,         \* seconds left of the backoff sleep
    outcome,            \* the SessionOutcome monitor_child returned last
    wresult,            \* what run_worker_supervisor returned
    fails_since_ok,     \* non-2xx health polls since the last 2xx or the spawn
    slept,              \* seconds slept in the current backoff sleep
    polled              \* the health poll made by the last step of the monitor

\* state.json as a concurrent `talon --status` sees it
VARIABLES
    disk,               \* the fields of state.json that are on disk, in order
    pending,            \* the fields fs::write has still to write
    saved,              \* the state of the last completed save_state
    writing,            \* the state the running save_state writes
    observed            \* what the last `talon --status` loaded

statusVars == << disk, pending, saved, writing, observed >>

\* the status endpoint thread of health::start
VARIABLES
    hpc,                \* position of the endpoint thread
    request,            \* the request read by handle_connection
    response            \* the last response written by handle_connection

healthVars == << hpc, request, response >>

\* a function of the program applied on its own to given arguments
VARIABLES
    call,               \* the function and its arguments
    ret                 \* what it returned

callVars == << call, ret >>

\* the loop counter of main.rs sleep_with_shutdown: quanta slept so far
VARIABLE sleep_step

\* the environment of the watchdog: TRUE once a critical probe has begun to
\* fail for good, with every recovery command failing
VARIABLE outage

\* main.rs 101-120: where fn main stands after it has spawned the supervisor
\* thread: "running" in run_watchdog_loop, "joining" in worker_handle.join(),
\* and then the Result it returned
VARIABLE main_result

\* worker.rs 81-83: Instant::now() in whole seconds, the locals `start` and
\* `last_health_check` of monitor_child, and the HTTP requests that this
\* call of monitor_child has issued
VARIABLES instant, start, last_health_check, requests

monitorVars == << instant, start, last_health_check, requests >>

workerVars == << wpc, children, backoff_secs, WORKER_RESTARTS,
                 consecutive_health_failures, synced, sent, drain_left,
                 drain_for, sleep_left, outcome, wresult, fails_since_ok, slept,
                 polled >>

vars == << pc, current_state, critical_since, config, service_tracker,
           services_file, RELOAD_REQUESTED, SHUTDOWN_REQUESTED, RECEIVED_SIGNAL,
           now, failed_probes, should_escalate, heal_outcome, agent_outcome,
           snapshot, state_file, tiers, cmds, refresh_result, sos_outcome,
           prev_sos_outcome, sos_sent_at, agents_run_at, tick_from,
           workerVars, monitorVars, statusVars, healthVars, callVars, outage, main_result, sleep_step >>

SIGTERM == 15
SIGINT == 2
SIGHUP == 1
SIGKILL == 9

\* the three atomics written by the signal handler
Flags == [reload |-> RELOAD_REQUESTED, shutdown |-> SHUTDOWN_REQUESTED,
          received |-> RECEIVED_SIGNAL]

\* variant: SIGHUP is handled like SIGTERM and SIGINT
signal_handler_no_hup(sig, flags) ==
    [flags EXCEPT !.received = sig, !.shutdown = TRUE]

\* main.rs 45-53: signal_handler
signal_handler(sig, flags) ==
    IF sig = SIGHUP
    THEN [flags EXCEPT !.reload = TRUE]
    ELSE [flags EXCEPT !.received = sig, !.shutdown = TRUE]

\* PersistentState::default
DefaultState ==
    [current_state |-> "Healthy", consecutive_failures |-> 0,
     last_heal_time |-> None, last_agent_time |-> None, last_sos_time |-> None,
     last_probe_results |-> << >>]

(* ----------------------------- config ---------------------------------- *)
\* Config::default, with the escalation thresholds of the model
DefaultConfig ==
    [http_service_probes |-> builtin_http_service_probes,
     launchd_service_probes |-> << >>,
     consecutive_failures_before_escalate |-> FailuresBeforeEscalate,
     agent_cooldown_secs |-> AgentCooldown,
     sos_cooldown_secs |-> SosCooldown,
     critical_threshold_secs |-> CriticalThreshold,
     worker |-> [health_failures_before_restart |-> HealthFailuresBeforeRestart,
                 restart_backoff_max_secs |-> BackoffMax]]

\* load_service_probes: parse the file and extend the two lists
load_service_probes(cfg, file) ==
    LET parsed == parse_services_toml(file.lines)
    IN IF parsed.ok
       THEN [ok |-> TRUE,
             config |-> [cfg EXCEPT !.http_service_probes = @ \o parsed.http,
                                    !.launchd_service_probes = @ \o parsed.launchd]]
       ELSE [ok |-> FALSE, config |-> cfg]

\* reload_service_probes: reset to the built-ins, clear launchd, then load
reload_service_probes(cfg, file) ==
    load_service_probes(
        [cfg EXCEPT !.http_service_probes = builtin_http_service_probes,
                    !.launchd_service_probes = << >>],
        file)

\* Config::refresh_service_probes; result is "true", "false" or "err"
refresh_service_probes(cfg, tracker, force, file) ==
    LET current_modified == file.modified
        changed == force \/ current_modified # tracker.last_modified
        r == reload_service_probes(cfg, file)
    IN IF ~changed
       THEN [result |-> "false", config |-> cfg, tracker |-> tracker]
       ELSE IF ~r.ok
       THEN [result |-> "err", config |-> r.config, tracker |-> tracker]
       ELSE [result |-> "true", config |-> r.config,
             tracker |-> [tracker EXCEPT !.last_modified = current_modified]]

\* Config::is_critical_probe
is_critical_probe(cfg, name) ==
    IF name \in {"colima", "docker", "talos_container", "k8s_api", "node_ready",
                 "node_schedulable", "redis", "kubelet_proxy_rbac"}
    THEN TRUE
    ELSE IF StartsWith(name, "http:")
    THEN LET i == FindByName(cfg.http_service_probes, StripPrefix(name, "http:"))
         IN IF i = 0 THEN FALSE ELSE cfg.http_service_probes[i].critical
    ELSE IF StartsWith(name, "launchd:")
    THEN LET i == FindByName(cfg.launchd_service_probes, StripPrefix(name, "launchd:"))
         IN IF i = 0 THEN FALSE ELSE cfg.launchd_service_probes[i].critical
    ELSE FALSE

(* ------------------------------ probes --------------------------------- *)
\* the static catalog of run_all_probes
StaticProbes ==
    << [name |-> "colima", critical |-> TRUE],
       [name |-> "docker", critical |-> TRUE],
       [name |-> "talos_container", critical |-> TRUE],
       [name |-> "k8s_api", critical |-> TRUE],
       [name |-> "node_ready", critical |-> TRUE],
       [name |-> "node_schedulable", critical |-> TRUE],
       [name |-> "flannel", critical |-> FALSE],
       [name |-> "redis", critical |-> TRUE] >>

\* the probe list of one run: static catalog, launchd probes, HTTP probes
BuildProbes(cfg) ==
    StaticProbes
    \o [i \in 1..Len(cfg.launchd_service_probes) |->
          [name |-> "launchd:" \o cfg.launchd_service_probes[i].name,
           critical |-> cfg.launchd_service_probes[i].critical]]
    \o [i \in 1..Len(cfg.http_service_probes) |->
          [name |-> "http:" \o cfg.http_service_probes[i].name,
           critical |-> cfg.http_service_probes[i].critical]]

\* run_all_probes, given the positions `fail` of the probes that do not pass
\* (exit status and validate_probe_output together)
run_all_probes(cfg, fail) ==
    LET probes == BuildProbes(cfg)
    IN [i \in 1..Len(probes) |->
          [name |-> probes[i].name,
           passed |-> i \notin fail,
           output |-> IF probes[i].critical /\ i \in fail
                      THEN "out [critical]" ELSE "out"]]

\* the probes the environment lets fail: a critical static probe, a built-in
\* (non-critical) HTTP probe and every user-defined probe
MayFail == {"k8s_api", "http:worker", "http:voice_agent", "http:api",
            "launchd:mail"}

FailChoices(cfg) ==
    LET probes == BuildProbes(cfg)
    IN {F \in SUBSET {i \in 1..Len(probes) : probes[i].name \in MayFail} :
          Cardinality(F) <= MaxFailed}

collect_failed_probes(results) == SelectSeq(results, LAMBDA r : ~r.passed)

\* variant: no probe counts as critical
collect_critical_failures_none(results, cfg) == << >>

collect_critical_failures(results, cfg) ==
    SelectSeq(results, LAMBDA r : is_critical_probe(cfg, r.name))

\* variant: the built-in HTTP probes are not excluded
is_dynamic_service_probe_builtin(name, cfg) ==
    IF StartsWith(name, "launchd:")
    THEN FindByName(cfg.launchd_service_probes, StripPrefix(name, "launchd:")) # 0
    ELSE IF StartsWith(name, "http:")
    THEN FindByName(cfg.http_service_probes, StripPrefix(name, "http:")) # 0
    ELSE FALSE

is_dynamic_service_probe(name, cfg) ==
    IF StartsWith(name, "launchd:")
    THEN FindByName(cfg.launchd_service_probes, StripPrefix(name, "launchd:")) # 0
    ELSE IF StartsWith(name, "http:")
    THEN IF StripPrefix(name, "http:") \in {"inngest", "typesense", "worker"}
         THEN FALSE
         ELSE FindByName(cfg.http_service_probes, StripPrefix(name, "http:")) # 0
    ELSE FALSE

should_use_service_heal(failures, cfg) ==
    /\ failures # << >>
    /\ \A i \in 1..Len(failures) : is_dynamic_service_probe(failures[i].name, cfg)

(* ------------------------------ state.rs ------------------------------- *)
\* variant: the SOS label is never left
transition_sticky_sos(state, next_state) ==
    IF state.current_state = next_state \/ state.current_state = "SOS"
    THEN state
    ELSE [state EXCEPT !.current_state = next_state]

\* state::transition
transition(state, next_state) ==
    IF state.current_state = next_state
    THEN state
    ELSE [state EXCEPT !.current_state = next_state]

\* state::save_state: the file is rewritten with the whole state
save_state(state) == [exists |-> TRUE, content |-> state]

\* variant: failed_probe_count counts every probe
publish_state_count_all(state) ==
    LET failed == SelectSeq(state.last_probe_results, LAMBDA p : ~p.passed)
    IN [ok |-> failed = << >> /\ state.current_state = "Healthy",
        state |-> state.current_state,
        consecutive_failures |-> state.consecutive_failures,
        probe_count |-> Len(state.last_probe_results),
        failed_probe_count |-> Len(state.last_probe_results),
        failed_probes |-> [i \in 1..Len(failed) |-> failed[i].name]]

\* health::publish_state
publish_state(state) ==
    LET failed == SelectSeq(state.last_probe_results, LAMBDA p : ~p.passed)
    IN [ok |-> failed = << >> /\ state.current_state = "Healthy",
        state |-> state.current_state,
        consecutive_failures |-> state.consecutive_failures,
        probe_count |-> Len(state.last_probe_results),
        failed_probe_count |-> Len(failed),
        failed_probes |-> [i \in 1..Len(failed) |-> failed[i].name]]

(* ---------------------------- escalation.rs --------------------------- *)
Cmd(c, ok) == [cmd |-> c, ok |-> ok]

\* escalation::run_heal (dry_run = false): the generic heal script
run_heal(cfg, state, t, script_ok) ==
    [outcome |-> IF script_ok THEN "Fixed" ELSE "Failed",
     state |-> [state EXCEPT !.last_heal_time = t],
     tier |-> "heal",
     cmds |-> << Cmd("heal_script", script_ok) >>]

\* variant: the labels are collected in a Vec, in the order of the failed
\* probes, instead of a BTreeSet
restart_targets_for_failed_services_vec(cfg, failed) ==
    LET LabelOf(n) ==
            LET i == FindByName(cfg.launchd_service_probes, n)
            IN IF i = 0 THEN {} ELSE {cfg.launchd_service_probes[i].label}
        Targets(name) ==
            IF StartsWith(name, "launchd:")
            THEN LabelOf(StripPrefix(name, "launchd:"))
            ELSE IF StartsWith(name, "http:")
            THEN IF StripPrefix(name, "http:") \in {"inngest", "typesense", "worker"}
                 THEN {}
                 ELSE LabelOf(StripPrefix(name, "http:"))
            ELSE {}
        hits == SelectSeq([i \in 1..Len(failed) |-> i],
                          LAMBDA i : Targets(failed[i].name) # {})
    IN [k \in 1..Len(hits) |-> CHOOSE l \in Targets(failed[hits[k]].name) : TRUE]

\* escalation::restart_targets_for_failed_services: the launchd labels of
\* the failed services, as a BTreeSet turned into a Vec
restart_targets_for_failed_services(cfg, failed) ==
    LET LabelOf(n) ==
            LET i == FindByName(cfg.launchd_service_probes, n)
            IN IF i = 0 THEN {} ELSE {cfg.launchd_service_probes[i].label}
        Targets(name) ==
            IF StartsWith(name, "launchd:")
            THEN LabelOf(StripPrefix(name, "launchd:"))
            ELSE IF StartsWith(name, "http:")
            THEN IF StripPrefix(name, "http:") \in {"inngest", "typesense", "worker"}
                 THEN {}
                 ELSE LabelOf(StripPrefix(name, "http:"))
            ELSE {}
        labels == UNION {Targets(failed[i].name) : i \in 1..Len(failed)}
    IN SelectSeq(LabelOrder, LAMBDA l : l \in labels)

\* variant: without restart targets the tier returns before the stamp
run_service_heal_late_stamp(cfg, state, failed, t, uid_ok, kick_ok) ==
    LET launchd_labels == restart_targets_for_failed_services(cfg, failed)
        stamped == [state EXCEPT !.last_heal_time = t]
        kicks == [i \in 1..Len(launchd_labels) |->
                    Cmd("kickstart gui/uid/" \o launchd_labels[i],
                        launchd_labels[i] \in kick_ok)]
    IN IF launchd_labels = << >>
       THEN [outcome |-> "Failed", state |-> state, tier |-> "service_heal",
             cmds |-> << >>]
       ELSE IF ~uid_ok
       THEN [outcome |-> "Failed", state |-> stamped, tier |-> "service_heal",
             cmds |-> << >>]
       ELSE [outcome |-> IF \A i \in 1..Len(kicks) : kicks[i].ok
                         THEN "Fixed" ELSE "Failed",
             state |-> stamped, tier |-> "service_heal", cmds |-> kicks]

\* variant: Fixed as soon as one kickstart succeeded
run_service_heal_any(cfg, state, failed, t, uid_ok, kick_ok) ==
    LET launchd_labels == restart_targets_for_failed_services(cfg, failed)
        stamped == [state EXCEPT !.last_heal_time = t]
        kicks == [i \in 1..Len(launchd_labels) |->
                    Cmd("kickstart gui/uid/" \o launchd_labels[i],
                        launchd_labels[i] \in kick_ok)]
    IN IF launchd_labels = << >> \/ ~uid_ok
       THEN [outcome |-> "Failed", state |-> stamped, tier |-> "service_heal",
             cmds |-> << >>]
       ELSE [outcome |-> IF \E i \in 1..Len(kicks) : kicks[i].ok
                         THEN "Fixed" ELSE "Failed",
             state |-> stamped, tier |-> "service_heal", cmds |-> kicks]

\* escalation::run_service_heal (dry_run = false); kick_ok is the set of
\* labels whose launchctl kickstart succeeds, uid_ok whether current_uid
\* resolves.  The pre-restart cleanup only contributes output text.
run_service_heal(cfg, state, failed, t, uid_ok, kick_ok) ==
    LET launchd_labels == restart_targets_for_failed_services(cfg, failed)
        stamped == [state EXCEPT !.last_heal_time = t]
        kicks == [i \in 1..Len(launchd_labels) |->
                    Cmd("kickstart gui/uid/" \o launchd_labels[i],
                        launchd_labels[i] \in kick_ok)]
    IN IF launchd_labels = << >> \/ ~uid_ok
       THEN [outcome |-> "Failed", state |-> stamped, tier |-> "service_heal",
             cmds |-> << >>]
       ELSE [outcome |-> IF \A i \in 1..Len(kicks) : kicks[i].ok
                         THEN "Fixed" ELSE "Failed",
             state |-> stamped, tier |-> "service_heal", cmds |-> kicks]

\* variant: last_agent_time is not stamped before the agents run
run_agents_no_stamp(cfg, state, t, cloud_ok, local_ok) ==
    IF /\ state.last_agent_time # None
       /\ SaturatingSub(t, state.last_agent_time) < cfg.agent_cooldown_secs
    THEN [outcome |-> "Cooldown", state |-> state, cmds |-> << >>]
    ELSE IF cloud_ok
    THEN [outcome |-> "Fixed", state |-> state,
          cmds |-> << Cmd("cloud_agent", TRUE) >>]
    ELSE [outcome |-> IF local_ok THEN "Fixed" ELSE "Failed",
          state |-> state,
          cmds |-> << Cmd("cloud_agent", FALSE), Cmd("local_agent", local_ok) >>]

\* variant: the local command runs whether or not the cloud command succeeded
run_agents_local_always(cfg, state, t, cloud_ok, local_ok) ==
    IF /\ state.last_agent_time # None
       /\ SaturatingSub(t, state.last_agent_time) < cfg.agent_cooldown_secs
    THEN [outcome |-> "Cooldown", state |-> state, cmds |-> << >>]
    ELSE [outcome |-> IF cloud_ok \/ local_ok THEN "Fixed" ELSE "Failed",
          state |-> [state EXCEPT !.last_agent_time = t],
          cmds |-> << Cmd("cloud_agent", cloud_ok), Cmd("local_agent", local_ok) >>]

\* variant: a skipped agents tier reports Failed
run_agents_cooldown_fails(cfg, state, t, cloud_ok, local_ok) ==
    IF /\ state.last_agent_time # None
       /\ SaturatingSub(t, state.last_agent_time) < cfg.agent_cooldown_secs
    THEN [outcome |-> "Failed", state |-> state, cmds |-> << >>]
    ELSE LET stamped == [state EXCEPT !.last_agent_time = t]
         IN IF cloud_ok
            THEN [outcome |-> "Fixed", state |-> stamped,
                  cmds |-> << Cmd("cloud_agent", TRUE) >>]
            ELSE [outcome |-> IF local_ok THEN "Fixed" ELSE "Failed",
                  state |-> stamped,
                  cmds |-> << Cmd("cloud_agent", FALSE), Cmd("local_agent", local_ok) >>]

\* escalation::run_agents (dry_run = false)
run_agents(cfg, state, t, cloud_ok, local_ok) ==
    IF /\ state.last_agent_time # None
       /\ SaturatingSub(t, state.last_agent_time) < cfg.agent_cooldown_secs
    THEN [outcome |-> "Cooldown", state |-> state, cmds |-> << >>]
    ELSE LET stamped == [state EXCEPT !.last_agent_time = t]
         IN IF cloud_ok
            THEN [outcome |-> "Fixed", state |-> stamped,
                  cmds |-> << Cmd("cloud_agent", TRUE) >>]
            ELSE [outcome |-> IF local_ok THEN "Fixed" ELSE "Failed",
                  state |-> stamped,
                  cmds |-> << Cmd("cloud_agent", FALSE), Cmd("local_agent", local_ok) >>]

\* escalation::send_telegram_sos: lease the bot token, then POST with curl
send_telegram_sos(lease_ok, curl_ok) ==
    IF ~lease_ok
    THEN [success |-> FALSE, cmds |-> << Cmd("secrets lease", FALSE) >>]
    ELSE [success |-> curl_ok,
          cmds |-> << Cmd("secrets lease", TRUE), Cmd("curl telegram", curl_ok) >>]

\* variant: the SOS cooldown gate is missing
run_sos_no_cooldown(cfg, state, since, t, lease_ok, curl_ok, imsg_ok, osa_ok) ==
    IF SaturatingSub(t, since) < cfg.critical_threshold_secs
    THEN [outcome |-> "Cooldown", state |-> state, cmds |-> << >>]
    ELSE LET telegram == send_telegram_sos(lease_ok, curl_ok)
             delivered == telegram.success \/ imsg_ok \/ (~imsg_ok /\ osa_ok)
             run == telegram.cmds \o << Cmd("imsg", imsg_ok) >>
                    \o (IF imsg_ok THEN << >> ELSE << Cmd("osascript", osa_ok) >>)
         IN IF delivered
            THEN [outcome |-> "Fixed", state |-> [state EXCEPT !.last_sos_time = t],
                  cmds |-> run]
            ELSE [outcome |-> "Failed", state |-> state, cmds |-> run]

\* variant: last_sos_time is stamped whether or not a channel delivered
run_sos_stamp_always(cfg, state, since, t, lease_ok, curl_ok, imsg_ok, osa_ok) ==
    IF SaturatingSub(t, since) < cfg.critical_threshold_secs
    THEN [outcome |-> "Cooldown", state |-> state, cmds |-> << >>]
    ELSE IF /\ state.last_sos_time # None
            /\ SaturatingSub(t, state.last_sos_time) < cfg.sos_cooldown_secs
    THEN [outcome |-> "Cooldown", state |-> state, cmds |-> << >>]
    ELSE LET telegram == send_telegram_sos(lease_ok, curl_ok)
             delivered == telegram.success \/ imsg_ok \/ (~imsg_ok /\ osa_ok)
             run == telegram.cmds \o << Cmd("imsg", imsg_ok) >>
                    \o (IF imsg_ok THEN << >> ELSE << Cmd("osascript", osa_ok) >>)
         IN [outcome |-> IF delivered THEN "Fixed" ELSE "Failed",
             state |-> [state EXCEPT !.last_sos_time = t], cmds |-> run]

\* escalation::run_sos (dry_run = false)
run_sos(cfg, state, since, t, lease_ok, curl_ok, imsg_ok, osa_ok) ==
    IF SaturatingSub(t, since) < cfg.critical_threshold_secs
    THEN [outcome |-> "Cooldown", state |-> state, cmds |-> << >>]
    ELSE IF /\ state.last_sos_time # None
            /\ SaturatingSub(t, state.last_sos_time) < cfg.sos_cooldown_secs
    THEN [outcome |-> "Cooldown", state |-> state, cmds |-> << >>]
    ELSE LET telegram == send_telegram_sos(lease_ok, curl_ok)
             delivered == telegram.success \/ imsg_ok \/ (~imsg_ok /\ osa_ok)
             run == telegram.cmds \o << Cmd("imsg", imsg_ok) >>
                    \o (IF imsg_ok THEN << >> ELSE << Cmd("osascript", osa_ok) >>)
         IN IF delivered
            THEN [outcome |-> "Fixed", state |-> [state EXCEPT !.last_sos_time = t],
                  cmds |-> run]
            ELSE [outcome |-> "Failed", state |-> state, cmds |-> run]

(* ------------------------------ actions -------------------------------- *)
cfgVars == << config, service_tracker, refresh_result >>
sigVars == << RELOAD_REQUESTED, SHUTDOWN_REQUESTED, RECEIVED_SIGNAL >>
histVars == << sos_outcome, prev_sos_outcome, sos_sent_at, agents_run_at,
              tick_from >>

(* ---------------------------- state.json ------------------------------- *)
\* the keys of state.json in the order state_to_json writes them
StateFields == << "current_state", "consecutive_failures", "last_heal_time",
                  "last_agent_time", "last_sos_time", "last_probe_results" >>

\* state::optional_u64_to_json: the token `null` or the digits of the value
optional_u64_to_json(value) ==
    IF value = None THEN [null |-> TRUE, digits |-> 0]
    ELSE [null |-> FALSE, digits |-> value]

\* state::state_to_json: the text as its sequence of key/value fields
state_to_json(state) ==
    [i \in 1..Len(StateFields) |->
       [key |-> StateFields[i],
        value |-> IF StateFields[i] \in {"last_heal_time", "last_agent_time",
                                         "last_sos_time"}
                  THEN optional_u64_to_json(state[StateFields[i]])
                  ELSE state[StateFields[i]]]]

\* state::key_position: the first field with that key, 0 if there is none
key_position(raw, key) ==
    LET idx == {i \in 1..Len(raw) : raw[i].key = key}
    IN IF idx = {} THEN 0 ELSE Min(idx)

\* state::parse_json_optional_u64 applied to a field that is present
parse_json_optional_u64(token) == IF token.null THEN None ELSE token.digits

\* state::load_state on the text `raw`: every key that is found overrides
\* the default (the fallback to last-probe.json is left out)
load_state(raw) ==
    [k \in DOMAIN DefaultState |->
       LET i == key_position(raw, k)
       IN IF i = 0 THEN DefaultState[k]
          ELSE IF k \in {"last_heal_time", "last_agent_time", "last_sos_time"}
          THEN parse_json_optional_u64(raw[i].value)
          ELSE raw[i].value]

\* states the watchdog saves at the end of a tick
SavedStates ==
    { DefaultState,
      [DefaultState EXCEPT !.current_state = "Degraded",
                           !.consecutive_failures = 1],
      [DefaultState EXCEPT !.current_state = "Critical",
                           !.consecutive_failures = 2,
                           !.last_heal_time = 1, !.last_agent_time = 1] }

\* state.json does not exist yet
StatusInit ==
    /\ disk = << >>
    /\ pending = << >>
    /\ saved = DefaultState
    /\ writing = DefaultState
    /\ observed = << >>

\* run_worker_supervisor before its loop
WorkerInit ==
    /\ wpc = "top"
    /\ children = << >>
    /\ backoff_secs = 1
    /\ WORKER_RESTARTS = 0
    /\ consecutive_health_failures = 0
    /\ synced = FALSE
    /\ sent = << >>
    /\ drain_left = 0
    /\ drain_for = "none"
    /\ sleep_left = 0
    /\ outcome = "none"
    /\ wresult = "running"
    /\ fails_since_ok = 0
    /\ slept = 0
    /\ polled = "none"
    /\ instant = 0
    /\ start = 0
    /\ last_health_check = 0
    /\ requests = << >>

(* ------------------------------ health.rs ------------------------------ *)
\* a request as the client sends it; `line` is its first line
Req(method, path) ==
    [method |-> method, path |-> path,
     line |-> method \o " " \o path \o " HTTP/1.1"]

\* the requests clients send to the endpoint
Requests ==
    { Req("GET", "/health"), Req("GET", "/healthz"), Req("GET", "/"),
      Req("GET", "/metrics"), Req("POST", "/health"), Req("HEAD", "/status") }

NoRequest == [method |-> "", path |-> "", line |-> ""]
NoResponse == [status |-> 0, body |-> [kind |-> "none"]]

\* the 404 body of handle_connection
NotFoundBody == [kind |-> "json", ok |-> FALSE, error |-> "not_found"]
\* the body of the index answer of handle_connection
IndexBody == [kind |-> "json", ok |-> TRUE, path |-> "/health"]

\* health::health_json: the fields of the published snapshot
health_json(snap) ==
    [kind |-> "snapshot", ok |-> snap.ok, state |-> snap.state,
     consecutive_failures |-> snap.consecutive_failures,
     probe_count |-> snap.probe_count,
     failed_probe_count |-> snap.failed_probe_count,
     failed_probes |-> snap.failed_probes]

\* health::handle_connection: the response to a request line
handle_connection(request_line, snap) ==
    IF StartsWith(request_line, "GET /health")
    THEN [status |-> 200, body |-> health_json(snap)]
    ELSE IF StartsWith(request_line, "GET /")
    THEN [status |-> 200, body |-> IndexBody]
    ELSE [status |-> 404, body |-> NotFoundBody]

\* health::start has not accepted a connection yet
HealthInit ==
    /\ hpc = "accept"
    /\ request = NoRequest
    /\ response = NoResponse

\* HealthSnapshot::default
HealthSnapshotDefault ==
    [ok |-> FALSE, state |-> "Starting", consecutive_failures |-> 0,
     probe_count |-> 0, failed_probe_count |-> 0, failed_probes |-> << >>]

InitWith(cfg) ==
    /\ pc = "start"
    /\ current_state = DefaultState
    /\ critical_since = None
    /\ \E f \in ValidFiles : services_file = [lines |-> f, modified |-> 0]
    /\ config = reload_service_probes(cfg, services_file).config
    /\ service_tracker = [last_modified |-> 0]
    /\ RELOAD_REQUESTED = FALSE
    /\ SHUTDOWN_REQUESTED = FALSE
    /\ RECEIVED_SIGNAL = 0
    /\ now = 0
    /\ failed_probes = << >>
    /\ should_escalate = FALSE
    /\ heal_outcome = "none"
    /\ agent_outcome = "none"
    /\ snapshot = HealthSnapshotDefault
    /\ state_file = [exists |-> FALSE, content |-> DefaultState]
    /\ tiers = << >>
    /\ cmds = << >>
    /\ refresh_result = "none"
    /\ sos_outcome = "none"
    /\ prev_sos_outcome = "none"
    /\ sos_sent_at = None
    /\ agents_run_at = None
    /\ tick_from = "none"
    /\ WorkerInit
    /\ StatusInit
    /\ HealthInit
    /\ call = [fn |-> "none"]
    /\ ret = << >>
    /\ sleep_step = 0
    /\ outage = FALSE
    /\ main_result = "running"

\* the process is started with the default talon.toml
Init == InitWith(DefaultConfig)

\* main.rs 98-100, 123-130: load the persisted state, derive critical_since
\* and publish the first snapshot
Startup ==
    /\ pc = "start"
    /\ LET loaded == IF state_file.exists THEN state_file.content ELSE DefaultState
       IN /\ current_state' = loaded
          /\ critical_since' = IF loaded.current_state = "Critical"
                               THEN loaded.last_agent_time ELSE None
          /\ snapshot' = publish_state(loaded)
    /\ pc' = "top"
    /\ UNCHANGED << cfgVars, services_file, sigVars, now, failed_probes,
                    should_escalate, heal_outcome, agent_outcome, state_file,
                    tiers, cmds, histVars >>
    /\ UNCHANGED << workerVars, monitorVars, statusVars, healthVars, callVars, outage, main_result, sleep_step >>

\* publish_state, save_state, sleep: the end of every path through the tick
EndTick(state) ==
    /\ current_state' = state
    /\ snapshot' = publish_state(state)
    /\ state_file' = save_state(state)
    /\ pc' = "sleep"

\* main.rs 133-136: the loop ends when shutdown was requested
LoopExit ==
    /\ pc = "top"
    /\ SHUTDOWN_REQUESTED
    /\ pc' = "done"
    /\ UNCHANGED << current_state, critical_since, config, service_tracker,
                    services_file, sigVars, now, failed_probes, should_escalate,
                    heal_outcome, agent_outcome, snapshot, state_file, tiers,
                    cmds, refresh_result, histVars >>
    /\ UNCHANGED << workerVars, monitorVars, statusVars, healthVars, callVars, outage, main_result, sleep_step >>

\* main.rs 138-167: consume the reload edge and refresh the dynamic probes
LoopTop ==
    /\ pc = "top"
    /\ ~SHUTDOWN_REQUESTED
    /\ LET force_reload == RELOAD_REQUESTED
           r == refresh_service_probes(config, service_tracker, force_reload,
                                       services_file)
       IN /\ RELOAD_REQUESTED' = FALSE
          /\ config' = r.config
          /\ service_tracker' = r.tracker
          /\ refresh_result' = r.result
    /\ pc' = "probe"
    /\ tick_from' = current_state.current_state
    /\ UNCHANGED << current_state, critical_since, services_file,
                    SHUTDOWN_REQUESTED, RECEIVED_SIGNAL, now, failed_probes,
                    should_escalate, heal_outcome, agent_outcome, snapshot,
                    state_file, tiers, cmds, sos_outcome, prev_sos_outcome,
                    sos_sent_at, agents_run_at >>
    /\ UNCHANGED << workerVars, monitorVars, statusVars, healthVars, callVars, outage, main_result, sleep_step >>

\* main.rs 169-202: run the probes, classify, decide whether to escalate
RunProbes ==
    /\ pc = "probe"
    /\ \E fail \in FailChoices(config) :
         LET results == run_all_probes(config, fail)
             failed == collect_failed_probes(results)
             critical_failures == collect_critical_failures(failed, config)
             probed == [current_state EXCEPT !.last_probe_results = results]
             counted == [probed EXCEPT !.consecutive_failures = SaturatingInc(@)]
             degraded == IF counted.current_state = "Healthy"
                         THEN transition(counted, "Degraded") ELSE counted
             escalate == \/ critical_failures # << >>
                         \/ degraded.consecutive_failures
                              >= config.consecutive_failures_before_escalate
         IN /\ failed_probes' = failed
            /\ IF failed = << >>
               THEN /\ critical_since' = None
                    /\ should_escalate' = FALSE
                    /\ EndTick(transition([probed EXCEPT !.consecutive_failures = 0],
                                          "Healthy"))
               ELSE IF ~escalate
               THEN /\ should_escalate' = FALSE
                    /\ EndTick(degraded)
                    /\ UNCHANGED critical_since
               ELSE /\ should_escalate' = TRUE
                    /\ current_state' = degraded
                    /\ pc' = "escalate"
                    /\ UNCHANGED << critical_since, snapshot, state_file >>
    /\ UNCHANGED << cfgVars, services_file, sigVars, now, heal_outcome,
                    agent_outcome, tiers, cmds, histVars >>
    /\ UNCHANGED << workerVars, monitorVars, statusVars, healthVars, callVars, outage, main_result, sleep_step >>

\* variant: Critical is sent back to Failed as well
EscalateFromCritical ==
    /\ pc = "escalate"
    /\ LET state == IF current_state.current_state
                         \in {"Degraded", "Investigating", "Critical"}
                    THEN transition(current_state, "Failed") ELSE current_state
       IN IF state.current_state = "Failed"
          THEN /\ current_state' = state /\ pc' = "heal"
               /\ UNCHANGED << snapshot, state_file >>
          ELSE IF state.current_state \in {"Critical", "SOS"}
          THEN /\ current_state' = state /\ pc' = "sos"
               /\ UNCHANGED << snapshot, state_file >>
          ELSE EndTick(state)
    /\ UNCHANGED << critical_since, cfgVars, services_file, sigVars, now,
                    failed_probes, should_escalate, heal_outcome, agent_outcome,
                    tiers, cmds, histVars >>
    /\ UNCHANGED << workerVars, monitorVars, statusVars, healthVars, callVars, outage, main_result, sleep_step >>

\* main.rs 204-210, 269: enter Failed from Degraded or Investigating and
\* pick the branch of the ladder
Escalate ==
    /\ pc = "escalate"
    /\ LET state == IF current_state.current_state \in {"Degraded", "Investigating"}
                    THEN transition(current_state, "Failed") ELSE current_state
       IN IF state.current_state = "Failed"
          THEN /\ current_state' = state /\ pc' = "heal"
               /\ UNCHANGED << snapshot, state_file >>
          ELSE IF state.current_state \in {"Critical", "SOS"}
          THEN /\ current_state' = state /\ pc' = "sos"
               /\ UNCHANGED << snapshot, state_file >>
          ELSE EndTick(state)
    /\ UNCHANGED << critical_since, cfgVars, services_file, sigVars, now,
                    failed_probes, should_escalate, heal_outcome, agent_outcome,
                    tiers, cmds, histVars >>
    /\ UNCHANGED << workerVars, monitorVars, statusVars, healthVars, callVars, outage, main_result, sleep_step >>

\* main.rs 210-218: the heal tier, service-specific or generic
Heal ==
    /\ pc = "heal"
    /\ \E script_ok \in BOOLEAN, uid_ok \in BOOLEAN, kick_ok \in SUBSET Range(LabelOrder) :
         LET r == IF should_use_service_heal(failed_probes, config)
                  THEN run_service_heal(config, current_state, failed_probes, now,
                                        uid_ok, kick_ok)
                  ELSE run_heal(config, current_state, now, script_ok)
         IN /\ current_state' = r.state
            /\ heal_outcome' = r.outcome
            /\ tiers' = Append(tiers, r.tier)
            /\ cmds' = cmds \o r.cmds
            /\ pc' = IF r.outcome = "Fixed" THEN "postheal" ELSE "agents"
    /\ UNCHANGED << critical_since, cfgVars, services_file, sigVars, now,
                    failed_probes, should_escalate, agent_outcome, snapshot,
                    state_file, histVars >>
    /\ UNCHANGED << workerVars, monitorVars, statusVars, healthVars, callVars, outage, main_result, sleep_step >>

\* variant: the clean re-probe does not end the iteration
PostHealNoContinue ==
    /\ pc = "postheal"
    /\ \E fail \in FailChoices(config) :
         LET post_heal == run_all_probes(config, fail)
             failed == collect_failed_probes(post_heal)
             probed == [current_state EXCEPT !.last_probe_results = post_heal]
             healthy == transition([probed EXCEPT !.consecutive_failures = 0],
                                   "Healthy")
         IN /\ failed_probes' = failed
            /\ pc' = "agents"
            /\ IF failed = << >>
               THEN /\ critical_since' = None
                    /\ current_state' = healthy
                    /\ snapshot' = publish_state(healthy)
                    /\ state_file' = save_state(healthy)
               ELSE /\ current_state' = probed
                    /\ UNCHANGED << critical_since, snapshot, state_file >>
    /\ UNCHANGED << cfgVars, services_file, sigVars, now, should_escalate,
                    heal_outcome, agent_outcome, tiers, cmds, histVars >>
    /\ UNCHANGED << workerVars, monitorVars, statusVars, healthVars, callVars, outage, main_result, sleep_step >>

\* main.rs 218-235: re-probe after a heal that reported Fixed
PostHeal ==
    /\ pc = "postheal"
    /\ \E fail \in FailChoices(config) :
         LET post_heal == run_all_probes(config, fail)
             failed == collect_failed_probes(post_heal)
             probed == [current_state EXCEPT !.last_probe_results = post_heal]
         IN /\ failed_probes' = failed
            /\ IF failed = << >>
               THEN /\ critical_since' = None
                    /\ EndTick(transition([probed EXCEPT !.consecutive_failures = 0],
                                          "Healthy"))
               ELSE /\ current_state' = probed
                    /\ pc' = "agents"
                    /\ UNCHANGED << critical_since, snapshot, state_file >>
    /\ UNCHANGED << cfgVars, services_file, sigVars, now, should_escalate,
                    heal_outcome, agent_outcome, tiers, cmds, histVars >>
    /\ UNCHANGED << workerVars, monitorVars, statusVars, healthVars, callVars, outage, main_result, sleep_step >>

\* variant: the agents tier runs under the label Failed
AgentsKeepFailed ==
    /\ pc = "agents"
    /\ \E cloud_ok \in BOOLEAN, local_ok \in BOOLEAN :
         LET r == run_agents(config, current_state,
                             now, cloud_ok, local_ok)
         IN /\ current_state' = r.state
            /\ agent_outcome' = r.outcome
            /\ tiers' = Append(tiers, "agents")
            /\ cmds' = cmds \o r.cmds
            /\ agents_run_at' = IF r.cmds # << >> THEN now ELSE agents_run_at
    /\ pc' = "agentresult"
    /\ UNCHANGED << critical_since, cfgVars, services_file, sigVars, now,
                    failed_probes, should_escalate, heal_outcome, snapshot,
                    state_file, sos_outcome, prev_sos_outcome, sos_sent_at,
                    tick_from >>
    /\ UNCHANGED << workerVars, monitorVars, statusVars, healthVars, callVars, outage, main_result, sleep_step >>

\* main.rs 237-244: enter Investigating and run the agents tier
Agents ==
    /\ pc = "agents"
    /\ \E cloud_ok \in BOOLEAN, local_ok \in BOOLEAN :
         LET r == run_agents(config, transition(current_state, "Investigating"),
                             now, cloud_ok, local_ok)
         IN /\ current_state' = r.state
            /\ agent_outcome' = r.outcome
            /\ tiers' = Append(tiers, "agents")
            /\ cmds' = cmds \o r.cmds
            /\ agents_run_at' = IF r.cmds # << >> THEN now ELSE agents_run_at
    /\ pc' = "agentresult"
    /\ UNCHANGED << critical_since, cfgVars, services_file, sigVars, now,
                    failed_probes, should_escalate, heal_outcome, snapshot,
                    state_file, sos_outcome, prev_sos_outcome, sos_sent_at,
                    tick_from >>
    /\ UNCHANGED << workerVars, monitorVars, statusVars, healthVars, callVars, outage, main_result, sleep_step >>

\* variant: critical_since is not stamped when the agents fail
AgentResultNoStamp ==
    /\ pc = "agentresult"
    /\ CASE agent_outcome = "Fixed" ->
              \E fail \in FailChoices(config) :
                 LET post_agent == run_all_probes(config, fail)
                     remaining_failures == collect_failed_probes(post_agent)
                     probed == [current_state EXCEPT !.last_probe_results = post_agent]
                 IN IF remaining_failures = << >>
                    THEN /\ critical_since' = None
                         /\ EndTick(transition([probed EXCEPT !.consecutive_failures = 0],
                                               "Healthy"))
                    ELSE /\ critical_since' = now
                         /\ EndTick(transition(probed, "Critical"))
         [] agent_outcome = "Failed" ->
              /\ EndTick(transition(current_state, "Critical"))
              /\ UNCHANGED critical_since
         [] OTHER ->
              /\ EndTick(current_state)
              /\ UNCHANGED critical_since
    /\ UNCHANGED << cfgVars, services_file, sigVars, now, failed_probes,
                    should_escalate, heal_outcome, agent_outcome, tiers, cmds,
                    histVars >>
    /\ UNCHANGED << workerVars, monitorVars, statusVars, healthVars, callVars, outage, main_result, sleep_step >>

\* main.rs 246-268, 290-292: act on the outcome of the agents tier
AgentResult ==
    /\ pc = "agentresult"
    /\ CASE agent_outcome = "Fixed" ->
              \E fail \in FailChoices(config) :
                 LET post_agent == run_all_probes(config, fail)
                     remaining_failures == collect_failed_probes(post_agent)
                     probed == [current_state EXCEPT !.last_probe_results = post_agent]
                 IN IF remaining_failures = << >>
                    THEN /\ critical_since' = None
                         /\ EndTick(transition([probed EXCEPT !.consecutive_failures = 0],
                                               "Healthy"))
                    ELSE /\ critical_since' = now
                         /\ EndTick(transition(probed, "Critical"))
         [] agent_outcome = "Failed" ->
              /\ critical_since' = now
              /\ EndTick(transition(current_state, "Critical"))
         [] OTHER ->
              /\ EndTick(current_state)
              /\ UNCHANGED critical_since
    /\ UNCHANGED << cfgVars, services_file, sigVars, now, failed_probes,
                    should_escalate, heal_outcome, agent_outcome, tiers, cmds,
                    histVars >>
    /\ UNCHANGED << workerVars, monitorVars, statusVars, healthVars, callVars, outage, main_result, sleep_step >>

\* variant: every SOS tick stamps critical_since anew
SosRestamps ==
    /\ pc = "sos"
    /\ \E lease_ok \in BOOLEAN, curl_ok \in BOOLEAN, imsg_ok \in BOOLEAN, osa_ok \in BOOLEAN :
         LET since == IF critical_since = None
                      THEN current_state.last_agent_time ELSE critical_since
             r == run_sos(config, current_state, since, now,
                          lease_ok, curl_ok, imsg_ok, osa_ok)
         IN /\ critical_since' = IF since = None THEN None ELSE now
            /\ IF since # None
               THEN /\ EndTick(IF r.outcome = "Fixed"
                               THEN transition(r.state, "SOS") ELSE r.state)
                    /\ sos_outcome' = r.outcome
                    /\ tiers' = Append(tiers, "sos")
                    /\ cmds' = cmds \o r.cmds
                    /\ sos_sent_at' = IF r.outcome = "Fixed" THEN now ELSE sos_sent_at
               ELSE /\ EndTick(current_state)
                    /\ UNCHANGED << sos_outcome, tiers, cmds, sos_sent_at >>
    /\ UNCHANGED << cfgVars, services_file, sigVars, now, failed_probes,
                    should_escalate, heal_outcome, agent_outcome,
                    prev_sos_outcome, agents_run_at, tick_from >>
    /\ UNCHANGED << workerVars, monitorVars, statusVars, healthVars, callVars, outage, main_result, sleep_step >>

\* main.rs 269-292: the SOS tier, anchored at critical_since
Sos ==
    /\ pc = "sos"
    /\ \E lease_ok \in BOOLEAN, curl_ok \in BOOLEAN, imsg_ok \in BOOLEAN, osa_ok \in BOOLEAN :
         LET since == IF critical_since = None
                      THEN current_state.last_agent_time ELSE critical_since
             r == run_sos(config, current_state, since, now,
                          lease_ok, curl_ok, imsg_ok, osa_ok)
         IN /\ critical_since' = since
            /\ IF since # None
               THEN /\ EndTick(IF r.outcome = "Fixed"
                               THEN transition(r.state, "SOS") ELSE r.state)
                    /\ sos_outcome' = r.outcome
                    /\ tiers' = Append(tiers, "sos")
                    /\ cmds' = cmds \o r.cmds
                    /\ sos_sent_at' = IF r.outcome = "Fixed" THEN now ELSE sos_sent_at
               ELSE /\ EndTick(current_state)
                    /\ UNCHANGED << sos_outcome, tiers, cmds, sos_sent_at >>
    /\ UNCHANGED << cfgVars, services_file, sigVars, now, failed_probes,
                    should_escalate, heal_outcome, agent_outcome,
                    prev_sos_outcome, agents_run_at, tick_from >>
    /\ UNCHANGED << workerVars, monitorVars, statusVars, healthVars, callVars, outage, main_result, sleep_step >>

\* main.rs 183, 200, 232, 292: sleep_with_shutdown ends the iteration; the
\* locals of the loop body go out of scope
Sleep ==
    /\ pc = "sleep"
    /\ pc' = "top"
    /\ failed_probes' = << >>
    /\ should_escalate' = FALSE
    /\ heal_outcome' = "none"
    /\ agent_outcome' = "none"
    /\ tiers' = << >>
    /\ cmds' = << >>
    /\ refresh_result' = "none"
    /\ prev_sos_outcome' = sos_outcome
    /\ sos_outcome' = "none"
    /\ tick_from' = "none"
    /\ UNCHANGED << current_state, critical_since, config, service_tracker,
                    services_file, sigVars, now, snapshot, state_file,
                    sos_sent_at, agents_run_at >>
    /\ UNCHANGED << workerVars, monitorVars, statusVars, healthVars, callVars, outage, main_result, sleep_step >>

\* main.rs 172, 182, 199, 222, 231, 251, 291: write_last_probe or save_state
\* returns Err and `?` returns it from run_watchdog_loop
WriteFailed ==
    /\ pc \in {"probe", "postheal", "agentresult", "sos"}
    /\ pc' = "failed"
    /\ UNCHANGED << current_state, critical_since, cfgVars, services_file,
                    sigVars, now, failed_probes, should_escalate, heal_outcome,
                    agent_outcome, snapshot, state_file, tiers, cmds, histVars >>
    /\ UNCHANGED << workerVars, monitorVars, statusVars, healthVars, callVars, outage, main_result, sleep_step >>

(* ---------------------------- environment ------------------------------ *)
\* The watchdog reads the two flags and services.toml only at the loop head
\* and in sleep_with_shutdown, so signals and edits are delivered while the
\* thread stands at the loop head.  Once shutdown is requested the loop
\* ends at its next check, so nothing later is observed by it.
\* the wall clock advances while the watchdog sleeps between two iterations
\* (the thread then stands at the loop head) or waits for the agent commands
Advance ==
    /\ pc \in {"top", "agentresult"}
    /\ ~SHUTDOWN_REQUESTED
    /\ now < MaxTime
    /\ now' = now + 1
    /\ UNCHANGED << pc, current_state, critical_since, cfgVars, services_file,
                    sigVars, failed_probes, should_escalate, heal_outcome,
                    agent_outcome, snapshot, state_file, tiers, cmds, histVars >>
    /\ UNCHANGED << workerVars, monitorVars, statusVars, healthVars, callVars, outage, main_result, sleep_step >>

\* main.rs 45-49: signal_handler(SIGHUP)
SignalHup ==
    /\ pc = "top"
    /\ ~SHUTDOWN_REQUESTED
    /\ RELOAD_REQUESTED' = TRUE
    /\ UNCHANGED << pc, current_state, critical_since, cfgVars, services_file,
                    SHUTDOWN_REQUESTED, RECEIVED_SIGNAL, now, failed_probes,
                    should_escalate, heal_outcome, agent_outcome, snapshot,
                    state_file, tiers, cmds, histVars >>
    /\ UNCHANGED << workerVars, monitorVars, statusVars, healthVars, callVars, outage, main_result, sleep_step >>

\* main.rs 51-52: signal_handler(SIGTERM | SIGINT)
SignalShutdown ==
    /\ pc = "top"
    /\ ~SHUTDOWN_REQUESTED
    /\ \E sig \in {SIGTERM, SIGINT} : RECEIVED_SIGNAL' = sig
    /\ SHUTDOWN_REQUESTED' = TRUE
    /\ UNCHANGED << pc, current_state, critical_since, cfgVars, services_file,
                    RELOAD_REQUESTED, now, failed_probes, should_escalate,
                    heal_outcome, agent_outcome, snapshot, state_file, tiers,
                    cmds, histVars >>
    /\ UNCHANGED << workerVars, monitorVars, statusVars, healthVars, callVars, outage, main_result, sleep_step >>

\* the user rewrites services.toml
EditServices ==
    /\ pc = "top"
    /\ ~SHUTDOWN_REQUESTED
    /\ services_file.modified < MaxEdits
    /\ \E f \in FileContents :
          services_file' = [lines |-> f, modified |-> services_file.modified + 1]
    /\ UNCHANGED << pc, current_state, critical_since, cfgVars, sigVars, now,
                    failed_probes, should_escalate, heal_outcome, agent_outcome,
                    snapshot, state_file, tiers, cmds, histVars >>
    /\ UNCHANGED << workerVars, monitorVars, statusVars, healthVars, callVars, outage, main_result, sleep_step >>

\* one iteration of the watchdog loop
Tick ==
    \/ LoopTop \/ RunProbes \/ Escalate \/ Heal \/ PostHeal
    \/ Agents \/ AgentResult \/ Sos \/ Sleep

\* The escalation ladder over time: the watchdog ticks while the clock
\* advances; services.toml stays the file the process was started with.
Next == Startup \/ Tick \/ Advance

Spec == Init /\ [][Next]_vars

\* Hot reload and signals: services.toml is rewritten and signals arrive
\* while the watchdog runs its ticks within one second of the clock.
NextReload == Startup \/ Tick \/ LoopExit \/ EditServices \/ SignalHup \/ SignalShutdown

SpecReload == Init /\ [][NextReload]_vars

NextIo == Startup \/ Tick \/ LoopExit \/ SignalShutdown \/ WriteFailed

\* the watchdog loop with failing writes of state.json and last-probe.json
SpecIo == Init /\ [][NextIo]_vars

(* --------------------------- worker.rs --------------------------------- *)
watchdogVars == << pc, current_state, critical_since, config, service_tracker,
                   services_file, RELOAD_REQUESTED, now, failed_probes,
                   should_escalate, heal_outcome, agent_outcome, snapshot,
                   state_file, tiers, cmds, refresh_result, histVars,
                   statusVars, healthVars, callVars, outage, main_result, sleep_step >>

\* the Child handle of the supervisor: its last spawned child
ChildStatus == IF children = << >> THEN "none" ELSE children[Len(children)]
SetChild(st) == [children EXCEPT ![Len(children)] = st]

\* run_worker_supervisor returns
Return(r) ==
    /\ wpc' = "done"
    /\ wresult' = r

\* worker.rs 44-47: the shutdown check at the head of the outer loop
SupervisorTop ==
    /\ wpc = "top"
    /\ IF SHUTDOWN_REQUESTED
       THEN Return("Ok")
       ELSE wpc' = "spawn" /\ UNCHANGED wresult
    /\ UNCHANGED << children, backoff_secs, WORKER_RESTARTS,
                    consecutive_health_failures, synced, sent, drain_left,
                    drain_for, sleep_left, outcome, fails_since_ok, slept >>
    /\ UNCHANGED << watchdogVars, SHUTDOWN_REQUESTED, RECEIVED_SIGNAL,
                    monitorVars >>
    /\ UNCHANGED polled

\* worker.rs 49-51, 81-84: kill_processes_on_port, load_child_env and
\* spawn_worker, then the locals of monitor_child.  lsof and command.spawn
\* may fail (Err is returned by `?`); `secrets lease` is waited for with
\* child.wait(), so a CLI that never exits blocks the thread.
SpawnWorker ==
    /\ wpc = "spawn"
    /\ Len(children) < MaxSpawns
    /\ \E lsof_ok \in BOOLEAN, lease \in {"ok", "fail", "hang"}, spawn_ok \in BOOLEAN :
         IF ~lsof_ok
         THEN /\ Return("Err")
              /\ UNCHANGED << children, consecutive_health_failures, synced,
                              sent, fails_since_ok, start, last_health_check,
                              requests >>
         ELSE IF lease = "hang"
         THEN /\ wpc' = "lease_blocked"
              /\ UNCHANGED << wresult, children, consecutive_health_failures,
                              synced, sent, fails_since_ok, start,
                              last_health_check, requests >>
         ELSE IF ~spawn_ok
         THEN /\ Return("Err")
              /\ UNCHANGED << children, consecutive_health_failures, synced,
                              sent, fails_since_ok, start, last_health_check,
                              requests >>
         ELSE /\ children' = Append(children, "running")
              /\ consecutive_health_failures' = 0
              /\ synced' = FALSE
              /\ start' = instant
              /\ last_health_check' = instant
              /\ requests' = << >>
              /\ sent' = << >>
              /\ fails_since_ok' = 0
              /\ wpc' = "mon_shutdown"
              /\ UNCHANGED wresult
    /\ UNCHANGED << backoff_secs, WORKER_RESTARTS, drain_left, drain_for,
                    sleep_left, outcome, slept, instant >>
    /\ UNCHANGED << watchdogVars, SHUTDOWN_REQUESTED, RECEIVED_SIGNAL >>
    /\ polled' = "none"

\* shutdown_child, worker.rs 341-347: send the signal and set the deadline
StartShutdownChild(signal, why) ==
    /\ sent' = Append(sent, signal)
    /\ drain_left' = DrainTimeout
    /\ drain_for' = why
    /\ wpc' = "drain"

\* variant: SIGTERM is forwarded whatever signal was received
MonitorShutdownCheckTerm ==
    /\ wpc = "mon_shutdown"
    /\ IF SHUTDOWN_REQUESTED
       THEN StartShutdownChild(SIGTERM, "shutdown")
       ELSE /\ wpc' = "mon_wait"
            /\ UNCHANGED << sent, drain_left, drain_for >>
    /\ UNCHANGED << children, backoff_secs, WORKER_RESTARTS,
                    consecutive_health_failures, synced, sleep_left, outcome,
                    wresult, fails_since_ok, slept >>
    /\ UNCHANGED << watchdogVars, SHUTDOWN_REQUESTED, RECEIVED_SIGNAL,
                    monitorVars >>
    /\ polled' = "none"

\* worker.rs 87-96: the shutdown check at the head of the monitor loop
MonitorShutdownCheck ==
    /\ wpc = "mon_shutdown"
    /\ IF SHUTDOWN_REQUESTED
       THEN LET signal == RECEIVED_SIGNAL
                forwarded_signal == IF signal = 0 THEN SIGTERM ELSE signal
            IN StartShutdownChild(forwarded_signal, "shutdown")
       ELSE /\ wpc' = "mon_wait"
            /\ UNCHANGED << sent, drain_left, drain_for >>
    /\ UNCHANGED << children, backoff_secs, WORKER_RESTARTS,
                    consecutive_health_failures, synced, sleep_left, outcome,
                    wresult, fails_since_ok, slept >>
    /\ UNCHANGED << watchdogVars, SHUTDOWN_REQUESTED, RECEIVED_SIGNAL,
                    monitorVars >>
    /\ polled' = "none"

\* worker.rs 98-101: child.try_wait in the monitor loop
MonitorTryWait ==
    /\ wpc = "mon_wait"
    /\ IF ChildStatus = "exited"
       THEN /\ children' = SetChild("reaped")
            /\ outcome' = "Restart"
            /\ wpc' = "restart"
       ELSE /\ wpc' = "mon_health"
            /\ UNCHANGED << children, outcome >>
    /\ UNCHANGED << backoff_secs, WORKER_RESTARTS, consecutive_health_failures,
                    synced, sent, drain_left, drain_for, sleep_left, wresult,
                    fails_since_ok, slept >>
    /\ UNCHANGED << watchdogVars, SHUTDOWN_REQUESTED, RECEIVED_SIGNAL,
                    monitorVars >>
    /\ UNCHANGED polled

\* variant: a 2xx poll does not reset consecutive_health_failures
MonitorHealthNoReset ==
    /\ wpc = "mon_health"
    /\ \E due \in BOOLEAN, http_request_ok \in BOOLEAN :
         IF ~due
         THEN /\ wpc' = "mon_shutdown"
              /\ polled' = "none"
              /\ UNCHANGED << backoff_secs, consecutive_health_failures, synced,
                              sent, drain_left, drain_for, fails_since_ok >>
         ELSE IF ~synced
         THEN /\ synced' = TRUE
              /\ wpc' = "mon_shutdown"
              /\ polled' = "none"
              /\ UNCHANGED << backoff_secs, consecutive_health_failures, sent,
                              drain_left, drain_for, fails_since_ok >>
         ELSE LET failures == IF http_request_ok THEN consecutive_health_failures
                              ELSE consecutive_health_failures + 1
              IN /\ consecutive_health_failures' = failures
                 /\ backoff_secs' = IF http_request_ok THEN 1 ELSE backoff_secs
                 /\ fails_since_ok' = IF http_request_ok THEN 0 ELSE fails_since_ok + 1
                 /\ polled' = IF http_request_ok THEN "ok" ELSE "fail"
                 /\ UNCHANGED synced
                 /\ IF failures >= config.worker.health_failures_before_restart
                    THEN StartShutdownChild(SIGTERM, "health")
                    ELSE /\ wpc' = "mon_shutdown"
                         /\ UNCHANGED << sent, drain_left, drain_for >>
    /\ UNCHANGED << children, WORKER_RESTARTS, sleep_left, outcome, wresult, slept >>
    /\ UNCHANGED << watchdogVars, SHUTDOWN_REQUESTED, RECEIVED_SIGNAL,
                    monitorVars >>

\* worker.rs 103-153: the sync request once the startup delay has passed,
\* then a health poll whenever health_interval_secs have passed (`due`)
MonitorHealth ==
    /\ wpc = "mon_health"
    /\ \E due \in BOOLEAN, http_request_ok \in BOOLEAN :
         IF ~due
         THEN /\ wpc' = "mon_shutdown"
              /\ polled' = "none"
              /\ UNCHANGED << backoff_secs, consecutive_health_failures, synced,
                              sent, drain_left, drain_for, fails_since_ok >>
         ELSE IF ~synced
         THEN /\ synced' = TRUE
              /\ wpc' = "mon_shutdown"
              /\ polled' = "none"
              /\ UNCHANGED << backoff_secs, consecutive_health_failures, sent,
                              drain_left, drain_for, fails_since_ok >>
         ELSE LET failures == IF http_request_ok THEN 0
                              ELSE consecutive_health_failures + 1
              IN /\ consecutive_health_failures' = failures
                 /\ backoff_secs' = IF http_request_ok THEN 1 ELSE backoff_secs
                 /\ fails_since_ok' = IF http_request_ok THEN 0 ELSE fails_since_ok + 1
                 /\ polled' = IF http_request_ok THEN "ok" ELSE "fail"
                 /\ UNCHANGED synced
                 /\ IF failures >= config.worker.health_failures_before_restart
                    THEN StartShutdownChild(SIGTERM, "health")
                    ELSE /\ wpc' = "mon_shutdown"
                         /\ UNCHANGED << sent, drain_left, drain_for >>
    /\ UNCHANGED << children, WORKER_RESTARTS, sleep_left, outcome, wresult, slept >>
    /\ UNCHANGED << watchdogVars, SHUTDOWN_REQUESTED, RECEIVED_SIGNAL,
                    monitorVars >>

\* variant: at the deadline shutdown_child gives up without SIGKILL and wait
ShutdownChildNoKill ==
    /\ wpc = "drain"
    /\ LET returned ==
              IF drain_for = "shutdown"
              THEN /\ outcome' = "Shutdown"
                   /\ Return("Ok")
              ELSE /\ outcome' = "Restart"
                   /\ wpc' = "restart"
                   /\ UNCHANGED wresult
       IN IF ChildStatus = "exited"
          THEN /\ children' = SetChild("reaped")
               /\ returned
               /\ UNCHANGED << sent, drain_left >>
          ELSE IF drain_left = 0
          THEN /\ returned
               /\ UNCHANGED << sent, children, drain_left >>
          ELSE /\ drain_left' = drain_left - 1
               /\ UNCHANGED << wpc, children, sent, outcome, wresult >>
    /\ UNCHANGED << backoff_secs, WORKER_RESTARTS, consecutive_health_failures,
                    synced, drain_for, sleep_left, fails_since_ok, slept >>
    /\ UNCHANGED << watchdogVars, SHUTDOWN_REQUESTED, RECEIVED_SIGNAL,
                    monitorVars >>
    /\ UNCHANGED polled

\* shutdown_child, worker.rs 348-364: poll try_wait until the deadline, then
\* SIGKILL and wait; afterwards monitor_child returns (worker.rs 95, 147)
ShutdownChild ==
    /\ wpc = "drain"
    /\ LET returned ==
              IF drain_for = "shutdown"
              THEN /\ outcome' = "Shutdown"
                   /\ Return("Ok")
              ELSE /\ outcome' = "Restart"
                   /\ wpc' = "restart"
                   /\ UNCHANGED wresult
       IN IF ChildStatus = "exited"
          THEN /\ children' = SetChild("reaped")
               /\ returned
               /\ UNCHANGED << sent, drain_left >>
          ELSE IF drain_left = 0
          THEN /\ sent' = Append(sent, SIGKILL)
               /\ children' = SetChild("reaped")
               /\ returned
               /\ UNCHANGED drain_left
          ELSE /\ drain_left' = drain_left - 1
               /\ UNCHANGED << wpc, children, sent, outcome, wresult >>
    /\ UNCHANGED << backoff_secs, WORKER_RESTARTS, consecutive_health_failures,
                    synced, drain_for, sleep_left, fails_since_ok, slept >>
    /\ UNCHANGED << watchdogVars, SHUTDOWN_REQUESTED, RECEIVED_SIGNAL,
                    monitorVars >>
    /\ UNCHANGED polled

\* worker.rs 58-62: count the restart and start the backoff sleep
CountRestart ==
    /\ wpc = "restart"
    /\ WORKER_RESTARTS' = WORKER_RESTARTS + 1
    /\ sleep_left' = backoff_secs
    /\ slept' = 0
    /\ wpc' = "backoff"
    /\ UNCHANGED << children, backoff_secs, consecutive_health_failures, synced,
                    sent, drain_left, drain_for, outcome, wresult, fails_since_ok >>
    /\ UNCHANGED << watchdogVars, SHUTDOWN_REQUESTED, RECEIVED_SIGNAL,
                    monitorVars >>
    /\ UNCHANGED polled

\* variant: backoff_secs doubles without the upper limit
BackoffSleepNoLimit ==
    /\ wpc = "backoff"
    /\ IF sleep_left = 0
       THEN /\ backoff_secs' = 2 * backoff_secs
            /\ wpc' = "top"
            /\ UNCHANGED << sleep_left, slept, wresult >>
       ELSE IF SHUTDOWN_REQUESTED
       THEN /\ Return("Ok")
            /\ UNCHANGED << backoff_secs, sleep_left, slept >>
       ELSE /\ sleep_left' = sleep_left - 1
            /\ slept' = slept + 1
            /\ UNCHANGED << wpc, backoff_secs, wresult >>
    /\ UNCHANGED << children, WORKER_RESTARTS, consecutive_health_failures,
                    synced, sent, drain_left, drain_for, outcome, fails_since_ok >>
    /\ UNCHANGED << watchdogVars, SHUTDOWN_REQUESTED, RECEIVED_SIGNAL,
                    monitorVars >>
    /\ UNCHANGED polled

\* worker.rs 64-68, 424-433: sleep_with_shutdown(backoff_secs), then the
\* doubling of backoff_secs
BackoffSleep ==
    /\ wpc = "backoff"
    /\ IF sleep_left = 0
       THEN /\ backoff_secs' = Min({2 * backoff_secs, config.worker.restart_backoff_max_secs})
            /\ wpc' = "top"
            /\ UNCHANGED << sleep_left, slept, wresult >>
       ELSE IF SHUTDOWN_REQUESTED
       THEN /\ Return("Ok")
            /\ UNCHANGED << backoff_secs, sleep_left, slept >>
       ELSE /\ sleep_left' = sleep_left - 1
            /\ slept' = slept + 1
            /\ UNCHANGED << wpc, backoff_secs, wresult >>
    /\ UNCHANGED << children, WORKER_RESTARTS, consecutive_health_failures,
                    synced, sent, drain_left, drain_for, outcome, fails_since_ok >>
    /\ UNCHANGED << watchdogVars, SHUTDOWN_REQUESTED, RECEIVED_SIGNAL,
                    monitorVars >>
    /\ UNCHANGED polled

\* the worker process ends, by itself or because of a signal it was sent
ChildExit ==
    /\ ChildStatus = "running"
    /\ wpc \in {"mon_shutdown", "mon_wait", "mon_health", "drain"}
    /\ children' = SetChild("exited")
    /\ UNCHANGED << wpc, backoff_secs, WORKER_RESTARTS,
                    consecutive_health_failures, synced, sent, drain_left,
                    drain_for, sleep_left, outcome, wresult, fails_since_ok, slept >>
    /\ UNCHANGED << watchdogVars, SHUTDOWN_REQUESTED, RECEIVED_SIGNAL,
                    monitorVars >>
    /\ UNCHANGED polled

\* main.rs 51-52: signal_handler(SIGTERM | SIGINT) while the supervisor runs
WorkerSignal ==
    /\ wresult = "running"
    /\ wpc # "lease_blocked"
    /\ \E sig \in {SIGTERM, SIGINT} :
         /\ sig # RECEIVED_SIGNAL
         /\ RECEIVED_SIGNAL' = sig
    /\ SHUTDOWN_REQUESTED' = TRUE
    /\ UNCHANGED << watchdogVars, workerVars, monitorVars >>

\* main.rs 106-108: the watchdog loop returned and main requests shutdown
\* without a signal having been recorded
WatchdogReturned ==
    /\ wresult = "running"
    /\ wpc # "lease_blocked"
    /\ ~SHUTDOWN_REQUESTED
    /\ SHUTDOWN_REQUESTED' = TRUE
    /\ UNCHANGED << watchdogVars, workerVars, monitorVars, RECEIVED_SIGNAL >>

\* a signal is delivered to the process while the supervisor runs: the
\* handler installed by install_signal_handlers (main.rs 356-363) runs
\* between two steps of the threads
DeliverSignal ==
    /\ wresult = "running"
    /\ wpc # "lease_blocked"
    /\ \E sig \in {SIGHUP, SIGTERM, SIGINT} :
         LET f == signal_handler(sig, Flags)
         IN /\ f # Flags
            /\ RELOAD_REQUESTED' = f.reload
            /\ SHUTDOWN_REQUESTED' = f.shutdown
            /\ RECEIVED_SIGNAL' = f.received
    /\ UNCHANGED << pc, current_state, critical_since, cfgVars, services_file,
                    now, failed_probes, should_escalate, heal_outcome,
                    agent_outcome, snapshot, state_file, tiers, cmds, histVars,
                    workerVars, monitorVars, statusVars, healthVars, callVars, outage, main_result, sleep_step >>

NextWorker ==
    \/ SupervisorTop \/ SpawnWorker \/ MonitorShutdownCheck \/ MonitorTryWait
    \/ MonitorHealth \/ ShutdownChild \/ CountRestart \/ BackoffSleep
    \/ ChildExit \/ WorkerSignal \/ WatchdogReturned \/ DeliverSignal
    \/ Startup \/ LoopExit

\* the worker supervisor thread and its environment
SpecWorker == Init /\ [][NextWorker]_vars

(* ---------------- monitor_child with its clock ------------------------ *)
\* variant: the sync request does not wait for the startup delay
sync_due_no_delay(is_synced, elapsed) == ~is_synced

\* worker.rs 103: the condition of the startup sync request
sync_due(is_synced, elapsed) ==
    ~is_synced /\ elapsed >= StartupSyncDelaySecs

\* variant: health polls do not wait for the sync request
health_due_unsynced(is_synced, elapsed) == elapsed >= HealthIntervalSecs

\* worker.rs 118-119: the condition of a health poll
health_due(is_synced, elapsed) ==
    is_synced /\ elapsed >= HealthIntervalSecs

\* one call of http_request_ok: its method, the instant it was issued at
\* and its result
HttpRequest(method, at, ok) == [method |-> method, at |-> at, ok |-> ok]

\* worker.rs 103-154: one pass of the monitor loop below try_wait, with
\* the readings of Instant::now().  Each request takes took_sync or
\* took_health seconds (at most http_timeout_secs), the sleep of 250 ms
\* ends in the same or in the next second.
MonitorSyncAndHealth ==
    /\ wpc = "mon_health"
    /\ \E sync_ok \in BOOLEAN, health_ok \in BOOLEAN,
          took_sync \in 0..1, took_health \in 0..1, slept_secs \in 0..1 :
         LET do_sync == sync_due(synced, instant - start)
             after_sync == IF do_sync THEN instant + took_sync ELSE instant
             synced1 == synced \/ do_sync
             checked1 == IF do_sync THEN after_sync ELSE last_health_check
             requests1 == IF do_sync
                          THEN Append(requests, HttpRequest("PUT", instant, sync_ok))
                          ELSE requests
             do_health == health_due(synced1, after_sync - checked1)
             after_health == IF do_health THEN after_sync + took_health
                             ELSE after_sync
             failures == IF ~do_health THEN consecutive_health_failures
                         ELSE IF health_ok THEN 0
                         ELSE consecutive_health_failures + 1
             restart == do_health /\ failures >= config.worker.health_failures_before_restart
             end == IF restart THEN after_health ELSE after_health + slept_secs
         IN /\ do_sync \/ (took_sync = 0 /\ sync_ok)
            /\ do_health \/ (took_health = 0 /\ health_ok)
            /\ ~restart \/ slept_secs = 0
            /\ end <= MaxInstant
            /\ synced' = synced1
            /\ requests' = IF do_health
                           THEN Append(requests1,
                                       HttpRequest("GET", after_sync, health_ok))
                           ELSE requests1
            /\ last_health_check' = IF do_health /\ ~restart THEN after_health
                                    ELSE checked1
            /\ instant' = end
            /\ consecutive_health_failures' = failures
            /\ backoff_secs' = IF do_health /\ health_ok THEN 1 ELSE backoff_secs
            /\ fails_since_ok' = IF ~do_health THEN fails_since_ok
                                 ELSE IF health_ok THEN 0 ELSE fails_since_ok + 1
            /\ polled' = IF ~do_health THEN "none"
                         ELSE IF health_ok THEN "ok" ELSE "fail"
            /\ IF restart
               THEN StartShutdownChild(SIGTERM, "health")
               ELSE /\ wpc' = "mon_shutdown"
                    /\ UNCHANGED << sent, drain_left, drain_for >>
    /\ UNCHANGED << children, WORKER_RESTARTS, sleep_left, outcome, wresult,
                    slept, start >>
    /\ UNCHANGED << watchdogVars, SHUTDOWN_REQUESTED, RECEIVED_SIGNAL >>

NextMonitor ==
    \/ SupervisorTop \/ SpawnWorker \/ MonitorShutdownCheck \/ MonitorTryWait
    \/ MonitorSyncAndHealth \/ ShutdownChild \/ CountRestart \/ BackoffSleep
    \/ ChildExit

\* the worker supervisor with the clock of monitor_child; no signal arrives
SpecMonitor == Init /\ [][NextMonitor]_vars

(* ------------------- save_state and talon --status -------------------- *)
notStatusVars == << pc, current_state, critical_since, config, service_tracker,
                    services_file, RELOAD_REQUESTED, now, failed_probes,
                    should_escalate, heal_outcome, agent_outcome, snapshot,
                    state_file, tiers, cmds, refresh_result, histVars,
                    SHUTDOWN_REQUESTED, RECEIVED_SIGNAL, workerVars, monitorVars,
                    healthVars, callVars, outage, main_result, sleep_step >>

\* state.rs 92-95: fs::write opens state.json with truncation
SaveStateOpen ==
    /\ pending = << >>
    /\ \E s \in SavedStates \ {saved} :
         /\ writing' = s
         /\ pending' = state_to_json(s)
    /\ disk' = << >>
    /\ UNCHANGED << saved, observed, notStatusVars >>

\* state.rs 95: write_all, one write call of fs::write; the file is closed
\* when nothing is left to write
SaveStateWrite ==
    /\ pending # << >>
    /\ \E n \in 1..Len(pending) :
         /\ disk' = disk \o SubSeq(pending, 1, n)
         /\ pending' = SubSeq(pending, n + 1, Len(pending))
         /\ saved' = IF n = Len(pending) THEN writing ELSE saved
    /\ UNCHANGED << writing, observed, notStatusVars >>

\* main.rs 76-80: `talon --status` loads state.json and prints it
StatusRead ==
    /\ observed' = << load_state(disk) >>
    /\ observed' # observed
    /\ UNCHANGED << disk, pending, saved, writing, notStatusVars >>

NextStatus == SaveStateOpen \/ SaveStateWrite \/ StatusRead

\* the watchdog's save_state and a concurrent reader of state.json
SpecStatus == Init /\ [][NextStatus]_vars

(* ------------------------- the status endpoint ------------------------ *)
notHealthVars == << pc, current_state, critical_since, config, service_tracker,
                    services_file, sigVars, now, failed_probes, should_escalate,
                    heal_outcome, agent_outcome, snapshot, state_file, tiers,
                    cmds, refresh_result, histVars, workerVars, monitorVars, statusVars,
                    callVars, outage, main_result, sleep_step >>

\* health.rs 93-96: listener.accept returns a connection and
\* handle_connection reads the request (main.rs 98-101: the endpoint is
\* started after the first publish_state).  Like signals, connections
\* arrive while the watchdog stands at the loop head.
HealthAccept ==
    /\ hpc = "accept"
    /\ pc = "top"
    /\ ~SHUTDOWN_REQUESTED
    /\ \E r \in Requests : request' = r
    /\ hpc' = "handle"
    /\ UNCHANGED << response, notHealthVars >>

\* health.rs 119-151: handle_connection answers the request
HandleConnection ==
    /\ hpc = "handle"
    /\ response' = handle_connection(request.line, snapshot)
    /\ hpc' = "written"
    /\ UNCHANGED << request, notHealthVars >>

\* health.rs 96, 130, 141, 151: handle_connection returns and the stream is
\* dropped, which closes the connection
HealthClose ==
    /\ hpc = "written"
    /\ request' = NoRequest
    /\ response' = NoResponse
    /\ hpc' = "accept"
    /\ UNCHANGED notHealthVars

\* health.rs 93, 111: the accept loop ends when shutdown is requested
HealthStop ==
    /\ hpc = "accept"
    /\ SHUTDOWN_REQUESTED
    /\ hpc' = "stopped"
    /\ UNCHANGED << request, response, notHealthVars >>

\* handle_connection shares only SNAPSHOT with the watchdog and reads it
\* once, under its mutex (health.rs 155-159), so every interleaving of the
\* two threads gives the response of a run in which the connection is served
\* between two steps of the watchdog: the watchdog steps while the endpoint
\* waits in accept.
WatchdogStep ==
    /\ hpc # "handle" /\ hpc # "written"
    /\ (Startup \/ Tick \/ LoopExit \/ SignalShutdown)

NextHealth ==
    \/ WatchdogStep
    \/ HealthAccept \/ HandleConnection \/ HealthClose \/ HealthStop

\* the status endpoint next to the watchdog loop that publishes snapshots
SpecHealth == Init /\ [][NextHealth]_vars

(* ------------------ signals and the tick sleep ------------------------- *)
\* main.rs 343-354: one iteration of the loop of sleep_with_shutdown.  The
\* sleep returns when either flag is set or all quanta are slept; the
\* iteration of run_watchdog_loop then ends (`continue`) and its locals go
\* out of scope.
\* variant: the sleep is cut short by the shutdown flag only
sleep_interrupted_shutdown_only(shutdown, reload) == shutdown

\* main.rs 346-351: the flags that make sleep_with_shutdown return early
sleep_interrupted(shutdown, reload) == shutdown \/ reload

SleepWithShutdown ==
    /\ pc = "sleep"
    /\ IF \/ sleep_step = SleepSteps
          \/ sleep_interrupted(SHUTDOWN_REQUESTED, RELOAD_REQUESTED)
       THEN /\ pc' = "top"
            /\ sleep_step' = 0
            /\ failed_probes' = << >>
            /\ should_escalate' = FALSE
            /\ heal_outcome' = "none"
            /\ agent_outcome' = "none"
            /\ tiers' = << >>
            /\ cmds' = << >>
            /\ refresh_result' = "none"
            /\ prev_sos_outcome' = sos_outcome
            /\ sos_outcome' = "none"
            /\ tick_from' = "none"
       ELSE /\ sleep_step' = sleep_step + 1
            /\ UNCHANGED << pc, failed_probes, should_escalate, heal_outcome,
                            agent_outcome, tiers, cmds, refresh_result,
                            prev_sos_outcome, sos_outcome, tick_from >>
    /\ UNCHANGED << current_state, critical_since, config, service_tracker,
                    services_file, sigVars, now, snapshot, state_file,
                    sos_sent_at, agents_run_at >>
    /\ UNCHANGED << workerVars, monitorVars, statusVars, healthVars, callVars, outage, main_result >>

\* main.rs 45-53, 356-363: a signal is delivered at any point of the
\* watchdog thread
SignalAnytime ==
    /\ pc # "done"
    /\ \E sig \in {SIGHUP, SIGTERM, SIGINT} :
         LET f == signal_handler(sig, Flags)
         IN /\ f # Flags
            /\ RELOAD_REQUESTED' = f.reload
            /\ SHUTDOWN_REQUESTED' = f.shutdown
            /\ RECEIVED_SIGNAL' = f.received
    /\ UNCHANGED << pc, current_state, critical_since, cfgVars, services_file,
                    now, failed_probes, should_escalate, heal_outcome,
                    agent_outcome, snapshot, state_file, tiers, cmds, histVars,
                    workerVars, monitorVars, statusVars, healthVars, callVars, outage, main_result, sleep_step >>

\* the steps of the watchdog thread, the sleep taken quantum by quantum
WatchdogThread ==
    \/ Startup \/ LoopExit \/ LoopTop \/ RunProbes \/ Escalate \/ Heal
    \/ PostHeal \/ Agents \/ AgentResult \/ Sos \/ SleepWithShutdown

NextSignals == WatchdogThread \/ SignalAnytime

\* the process was started with the default services.toml
InitSignals == Init /\ services_file.lines = DefaultServices

\* the positions of the watchdog thread
WatchdogPcs ==
    { "start", "top", "probe", "escalate", "heal", "postheal", "agents",
      "agentresult", "sos", "sleep", "done" }

\* The watchdog thread takes its next step: its position or its count of
\* slept quanta changes.  Under NextSignals these are exactly the steps of
\* WatchdogThread (a signal changes neither), and the thread has a next
\* step wherever it has not returned (WatchdogNeverStuck).
WatchdogAdvance ==
    /\ pc # "done"
    /\ pc' \in WatchdogPcs
    /\ sleep_step' \in 0..SleepSteps

\* The watchdog thread with signals arriving at any point; services.toml is
\* not touched.  The thread keeps running: every command it waits for is
\* bounded by a timeout (probes.rs 205-214, escalation.rs 747-756).
SpecSignals ==
    InitSignals /\ [][NextSignals]_vars /\ WF_<< pc, sleep_step >>(WatchdogAdvance)

\* the watchdog thread can take a step until run_watchdog_loop returns
WatchdogNeverStuck == pc # "done" => ENABLED << WatchdogThread >>_vars

(* ------------------- functions applied on their own ------------------- *)
notCallVars == << pc, current_state, critical_since, config, service_tracker,
                  services_file, sigVars, now, failed_probes, should_escalate,
                  heal_outcome, agent_outcome, snapshot, state_file, tiers,
                  cmds, refresh_result, histVars, workerVars, monitorVars, statusVars,
                  healthVars, outage, main_result, sleep_step >>

\* a ProbeResult of a probe that did not pass
FailedResult(n) == [name |-> n, passed |-> FALSE, output |-> "out"]

\* the names of the configured probes that fail in the lists handed to
\* restart_targets_for_failed_services
FailingNames(cfg) ==
    {BuildProbes(cfg)[i].name : i \in 1..Len(BuildProbes(cfg))}
    \cap {"k8s_api", "http:worker", "http:voice_agent", "launchd:voice_agent",
          "http:api", "launchd:mail"}

\* failed-probe lists, in any order and with repetitions
FailedLists(cfg) ==
    UNION {[1..k -> {FailedResult(n) : n \in FailingNames(cfg)}] :
             k \in 0..MaxFailedList}

\* escalation.rs 100: run_service_heal computes its restart targets
CallRestartTargets ==
    /\ call.fn = "none"
    /\ \E failed \in FailedLists(config) :
         /\ call' = [fn |-> "restart_targets_for_failed_services",
                     failed |-> failed]
         /\ ret' = restart_targets_for_failed_services(config, failed)
    /\ UNCHANGED notCallVars

\* the configurations run_service_heal is applied under
HealConfigs ==
    {reload_service_probes(DefaultConfig, [lines |-> f, modified |-> 0]).config :
       f \in ValidFiles \cup {BothServices}}

\* the failed-probe lists of a probe run that select the service heal
ServiceHealLists(cfg) ==
    {failed \in FailedLists(cfg) :
       /\ \A i, j \in 1..Len(failed) : failed[i] = failed[j] => i = j
       /\ should_use_service_heal(failed, cfg)}

\* main.rs 211-213: the heal tier of a tick whose failures are all dynamic
\* service probes
CallRunServiceHeal ==
    /\ call.fn = "none"
    /\ \E cfg \in HealConfigs, state \in SavedStates, uid_ok \in BOOLEAN,
          kick_ok \in SUBSET Range(LabelOrder) :
          \E failed \in ServiceHealLists(cfg) :
             /\ call' = [fn |-> "run_service_heal", cfg |-> cfg, state |-> state,
                         failed |-> failed, t |-> now, uid_ok |-> uid_ok]
             /\ ret' = run_service_heal(cfg, state, failed, now, uid_ok, kick_ok)
    /\ UNCHANGED notCallVars

NextCalls == CallRestartTargets \/ CallRunServiceHeal

\* functions of the program applied to arguments drawn from bounded sets,
\* one application in a behaviour
SpecCalls == Init /\ [][NextCalls]_vars

(* ------------------------------ claims --------------------------------- *)
Label == current_state.current_state
HealTiers == {"heal", "service_heal"}
NoFailure(results) == \A i \in 1..Len(results) : results[i].passed
LastTier(t) == IF t = << >> THEN "none" ELSE t[Len(t)]

\* the edges of the graph in the design's section 4.4
GraphEdges ==
    { << "Healthy", "Degraded" >>, << "Degraded", "Failed" >>,
      << "Failed", "Healthy" >>, << "Failed", "Investigating" >>,
      << "Investigating", "Healthy" >>, << "Investigating", "Critical" >>,
      << "Critical", "SOS" >> }

\* the step is the probe run of a tick and finds no failed probe
CleanTickStep == pc = "probe" /\ failed_probes' = << >>

\* C1 as stated: every change of the label is an edge of the graph or a move
\* to Healthy on a clean tick.
C1_OnlyGraphEdges ==
    [][ Label' # Label =>
          \/ << Label, Label' >> \in GraphEdges
          \/ (Label' = "Healthy" /\ CleanTickStep) ]_vars

\* C1 (amended): every change of the current_state label is an edge of the
\* graph, the edge Investigating -> Failed taken by an escalating tick that
\* starts in Investigating, or a move to Healthy on a clean tick.
C1_LabelChanges ==
    [][ Label' # Label =>
          \/ << Label, Label' >> \in GraphEdges
          \/ (Label = "Investigating" /\ Label' = "Failed" /\ pc = "escalate")
          \/ (Label' = "Healthy" /\ CleanTickStep) ]_vars

\* a tick that started in Investigating has re-entered Failed
C1_Witness ==
    pc = "heal" /\ tick_from = "Investigating" /\ Label = "Failed"

\* C2: within one tick the heal tier is the first tier and is called in
\* state Failed only; the agents tier is called only as the second tier,
\* right after a heal tier of the same tick; a post-heal re-probe without a
\* failed probe ends the tick Healthy with no agents tier.
C2_LadderOrder ==
    /\ [][ (tiers' # tiers /\ LastTier(tiers') \in HealTiers) =>
              (tiers = << >> /\ Label = "Failed") ]_vars
    /\ [](\A i \in 1..Len(tiers) :
              tiers[i] = "agents" => (i = 2 /\ tiers[1] \in HealTiers))
    /\ [][ (pc = "postheal" /\ pc' # "postheal" /\ NoFailure(current_state'.last_probe_results)) =>
              (pc' = "sleep" /\ Label' = "Healthy" /\ "agents" \notin Range(tiers')) ]_vars
    /\ [](pc = "postheal" => heal_outcome = "Fixed")

\* a tick has ended Healthy after a heal that fixed, without the agents tier
C2_Witness ==
    /\ pc = "sleep" /\ heal_outcome = "Fixed" /\ Len(tiers) = 1
    /\ tiers[1] \in HealTiers /\ Label = "Healthy"

\* C3: the step that acts on the agents tier's outcome starts in
\* Investigating; Fixed with a clean re-probe gives Healthy, counter 0 and
\* no critical_since; Fixed with residual failures, or Failed, gives
\* Critical with critical_since = now; Cooldown leaves Investigating and
\* critical_since as they are.
C3_AgentOutcome ==
    /\ [](pc = "agentresult" => Label = "Investigating")
    /\ [][ (pc = "agentresult" /\ pc' # "agentresult") =>
             LET clean == NoFailure(current_state'.last_probe_results)
             IN /\ (agent_outcome = "Fixed" /\ clean) =>
                     /\ Label' = "Healthy"
                     /\ current_state'.consecutive_failures = 0
                     /\ critical_since' = None
                /\ ((agent_outcome = "Fixed" /\ ~clean) \/ agent_outcome = "Failed") =>
                     /\ Label' = "Critical"
                     /\ critical_since' = now
                /\ agent_outcome = "Cooldown" =>
                     /\ Label' = "Investigating"
                     /\ critical_since' = critical_since ]_vars

\* the agents reported Fixed, the re-probe still failed: Critical, stamped
C3_Witness ==
    /\ pc = "sleep" /\ agent_outcome = "Fixed" /\ Label = "Critical"
    /\ critical_since = now /\ ~NoFailure(current_state.last_probe_results)

\* C4: on a failing probe run the tick escalates iff a failed probe is
\* critical or the incremented counter reaches the threshold; otherwise it
\* ends at once with no tier called, the counter incremented and at most
\* Healthy -> Degraded; a tier is called in exactly the escalating ticks.
C4_EscalationDecision ==
    /\ [][ (pc = "probe" /\ failed_probes' # << >>) =>
             LET counter == SaturatingInc(current_state.consecutive_failures)
                 escalates ==
                    \/ \E i \in 1..Len(failed_probes') :
                          is_critical_probe(config, failed_probes'[i].name)
                    \/ counter >= config.consecutive_failures_before_escalate
             IN /\ should_escalate' = escalates
                /\ current_state'.consecutive_failures = counter
                /\ escalates => pc' = "escalate"
                /\ ~escalates =>
                     /\ pc' = "sleep" /\ tiers' = << >> /\ cmds' = << >>
                     /\ Label' = IF Label = "Healthy" THEN "Degraded" ELSE Label
                     /\ current_state'.last_heal_time = current_state.last_heal_time
                     /\ current_state'.last_agent_time = current_state.last_agent_time
                     /\ current_state'.last_sos_time = current_state.last_sos_time
                     /\ critical_since' = critical_since ]_vars
    /\ [](tiers # << >> => should_escalate)
    /\ []((pc = "sleep" /\ should_escalate) => tiers # << >>)

\* a first failing tick (counter 1, below the threshold) has called a tier
C4_Witness ==
    /\ pc = "sleep" /\ tick_from = "Healthy" /\ tiers # << >>
    /\ current_state.consecutive_failures = 1
    /\ 1 < config.consecutive_failures_before_escalate

\* C5: a probe run without a failed probe ends the tick, from any label,
\* with Healthy, counter 0, no critical_since, no tier called and a
\* published snapshot with ok = true.
C5_CleanTick ==
    [][ CleanTickStep =>
          /\ pc' = "sleep"
          /\ Label' = "Healthy"
          /\ current_state'.consecutive_failures = 0
          /\ critical_since' = None
          /\ tiers' = << >> /\ cmds' = << >>
          /\ snapshot'.ok /\ snapshot'.state = "Healthy"
          /\ state_file'.content = current_state' ]_vars

\* a clean tick that started in SOS has ended Healthy
C5_Witness ==
    /\ pc = "sleep" /\ tick_from = "SOS" /\ failed_probes = << >>
    /\ tiers = << >> /\ Label = "Healthy" /\ snapshot.ok

\* the delivery commands of the three SOS channels
ChannelCmds == {"curl telegram", "imsg", "osascript"}
CmdNames(cs) == {cs[i].cmd : i \in 1..Len(cs)}
Succeeded(cs, c) == \E i \in 1..Len(cs) : cs[i].cmd = c /\ cs[i].ok
Failing(cs, c) == \E i \in 1..Len(cs) : cs[i].cmd = c /\ ~cs[i].ok

\* the SOS tier is called in this step
SosStep == pc = "sos" /\ tiers' # tiers

\* the gates of the SOS tier, evaluated before the step
SosGated ==
    \/ now - critical_since < config.critical_threshold_secs
    \/ /\ current_state.last_sos_time # None
       /\ now - current_state.last_sos_time < config.sos_cooldown_secs

\* C6: while now - critical_since < critical_threshold_secs or
\* now - last_sos_time < sos_cooldown_secs the SOS tier returns Cooldown,
\* runs no channel command and leaves last_sos_time alone; two delivering
\* SOS tiers are at least sos_cooldown_secs apart.
C6_SosGates ==
    /\ [](pc = "sos" => critical_since # None)
    /\ [][ (SosStep /\ SosGated) =>
              /\ sos_outcome' = "Cooldown"
              /\ cmds' = cmds
              /\ current_state'.last_sos_time = current_state.last_sos_time
              /\ sos_sent_at' = sos_sent_at ]_vars
    /\ [][ (sos_sent_at' # sos_sent_at /\ sos_sent_at # None) =>
              sos_sent_at' - sos_sent_at >= config.sos_cooldown_secs ]_vars

\* the SOS tier answered Cooldown because of an earlier delivery, the
\* persistence threshold being passed
C6_Witness ==
    /\ pc = "sleep" /\ sos_outcome = "Cooldown"
    /\ current_state.last_sos_time # None
    /\ now - critical_since >= config.critical_threshold_secs
    /\ now - current_state.last_sos_time < config.sos_cooldown_secs

\* what C7 says of an SOS tier that passed both gates, but for the label
C7_Delivery ==
    /\ sos_outcome' \in {"Fixed", "Failed"}
    /\ CmdNames(cmds') \cap ChannelCmds # {}
    /\ sos_outcome' = "Fixed" <=> \E c \in ChannelCmds : Succeeded(cmds', c)
    /\ sos_outcome' = "Fixed" => current_state'.last_sos_time = now
    /\ sos_outcome' = "Failed" =>
          current_state'.last_sos_time = current_state.last_sos_time
    /\ "osascript" \in CmdNames(cmds') <=> Failing(cmds', "imsg")

\* an SOS tier that follows a tick whose SOS tier returned Failed is not
\* held back by a cooldown
C7_Retry == (SosStep /\ prev_sos_outcome = "Failed") => sos_outcome' # "Cooldown"

\* C7 as stated: past both gates the SOS tier returns Fixed and stamps
\* last_sos_time iff a channel succeeded; if all fail it returns Failed,
\* last_sos_time is unchanged, the state stays Critical and the next tick's
\* SOS tier is not in cooldown; osascript runs only if imsg failed.
C7_StaysCritical ==
    [][ /\ (SosStep /\ ~SosGated) =>
            (C7_Delivery /\ (sos_outcome' = "Failed" => Label' = "Critical"))
        /\ C7_Retry ]_vars

\* C7 (amended): as stated, except that after a Failed SOS tier the label
\* is the one the tick started with, Critical or, after an earlier
\* delivery, SOS.
C7_SosOutcome ==
    [][ /\ (SosStep /\ ~SosGated) =>
            (C7_Delivery /\ (sos_outcome' = "Failed" =>
                               (Label' = Label /\ Label \in {"Critical", "SOS"})))
        /\ C7_Retry ]_vars

\* all channels failed in two ticks in a row
C7_Witness ==
    /\ pc = "sleep" /\ sos_outcome = "Failed" /\ prev_sos_outcome = "Failed"
    /\ Failing(cmds, "osascript")

\* the agents tier is called in this step
AgentsStep == pc = "agents" /\ tiers' # tiers

AgentsInCooldown ==
    /\ current_state.last_agent_time # None
    /\ now - current_state.last_agent_time < config.agent_cooldown_secs

\* C8: in cooldown the agents tier returns Cooldown, runs no command and
\* leaves last_agent_time alone; otherwise it stamps last_agent_time := now
\* and runs the cloud command; two tiers that run a command are at least
\* agent_cooldown_secs apart.
C8_AgentCooldown ==
    /\ [][ AgentsStep =>
              IF AgentsInCooldown
              THEN /\ agent_outcome' = "Cooldown"
                   /\ cmds' = cmds
                   /\ current_state'.last_agent_time = current_state.last_agent_time
              ELSE /\ agent_outcome' # "Cooldown"
                   /\ current_state'.last_agent_time = now
                   /\ "cloud_agent" \in CmdNames(cmds') ]_vars
    /\ [][ (agents_run_at' # agents_run_at /\ agents_run_at # None) =>
              agents_run_at' - agents_run_at >= config.agent_cooldown_secs ]_vars

\* the agents tier was skipped because of an earlier run
C8_Witness ==
    /\ pc = "agentresult" /\ agent_outcome = "Cooldown"
    /\ current_state.last_agent_time # None
    /\ "cloud_agent" \notin CmdNames(cmds)

\* the names of the dynamic service probes, as the design defines them
DynamicServiceNames ==
    {"launchd:" \o p.name : p \in Range(config.launchd_service_probes)}
    \cup {"http:" \o p.name :
            p \in {q \in Range(config.http_service_probes) :
                      q.name \notin {"inngest", "typesense", "worker"}}}

\* C9: the heal tier, called in state Failed, is the service heal iff the
\* failed set is non-empty and holds dynamic service probes only; otherwise
\* it is the generic heal script.
C9_HealSelection ==
    [][ (pc = "heal" /\ tiers' # tiers) =>
          /\ Label = "Failed"
          /\ LastTier(tiers') =
                IF /\ failed_probes # << >>
                   /\ \A i \in 1..Len(failed_probes) :
                         failed_probes[i].name \in DynamicServiceNames
                THEN "service_heal" ELSE "heal"
          /\ LastTier(tiers') = "heal" <=> "heal_script" \in CmdNames(cmds') ]_vars

\* the service heal ran for a failed dynamic probe
C9_Witness ==
    /\ pc \in {"postheal", "agents"} /\ tiers = << "service_heal" >>
    /\ "heal_script" \notin CmdNames(cmds)

\* C10: when the reload of services.toml fails, the dynamic HTTP and
\* launchd probe lists stay the ones in effect before the attempt.
C10_KeepsPreviousProbes ==
    [][ refresh_result' = "err" =>
          /\ config'.http_service_probes = config.http_service_probes
          /\ config'.launchd_service_probes = config.launchd_service_probes ]_vars

\* C11: the dynamic probe lists a tick runs with are the complete lists
\* from before its reload step or the complete lists parsed from the
\* current services.toml, never anything in between.
C11_AtomicReload ==
    [][ (pc = "top" /\ pc' = "probe") =>
          LET parsed == parse_services_toml(services_file.lines)
          IN \/ /\ config'.http_service_probes = config.http_service_probes
                /\ config'.launchd_service_probes = config.launchd_service_probes
             \/ /\ parsed.ok
                /\ config'.http_service_probes =
                      builtin_http_service_probes \o parsed.http
                /\ config'.launchd_service_probes = parsed.launchd ]_vars

\* the spawned children that have not been waited for
Unreaped == {i \in 1..Len(children) : children[i] # "reaped"}

\* C12: at most one spawned worker child is alive or un-reaped at any time,
\* and a child is spawned only when every earlier child has been reaped.
C12_OneChild ==
    /\ [](Cardinality(Unreaped) <= 1)
    /\ [][ Len(children') > Len(children) =>
              /\ Unreaped = {}
              /\ Len(children') = Len(children) + 1 ]_vars

\* a second child runs after the first was reaped and counted
C12_Witness ==
    /\ Len(children) = 2
    /\ children[1] = "reaped" /\ children[2] = "running"
    /\ WORKER_RESTARTS = 1

\* the supervisor thread takes a step out of position p
WorkerLeaves(p) == wpc = p /\ wpc' # p

MonitorReturns ==
    /\ wpc \in {"mon_shutdown", "mon_wait", "mon_health", "drain"}
    /\ wpc' \notin {"mon_shutdown", "mon_wait", "mon_health", "drain"}

\* C14: every Restart returned by the monitor is counted once in
\* WORKER_RESTARTS and followed by a sleep of backoff_secs, after which
\* backoff_secs is min(2 * backoff_secs, restart_backoff_max_secs);
\* backoff_secs starts at 1 and every 2xx health poll sets it to 1.
C14_Backoff ==
    /\ []((children = << >> /\ wpc \in {"top", "spawn"}) => backoff_secs = 1)
    /\ [][ (MonitorReturns /\ outcome' = "Restart") => wpc' = "restart" ]_vars
    /\ [][ WorkerLeaves("restart") =>
              /\ outcome = "Restart"
              /\ WORKER_RESTARTS' = WORKER_RESTARTS + 1
              /\ wpc' = "backoff" /\ sleep_left' = backoff_secs /\ slept' = 0 ]_vars
    /\ [][ WORKER_RESTARTS' # WORKER_RESTARTS => wpc = "restart" ]_vars
    /\ [][ (wpc = "backoff" /\ wpc' = "top") =>
              /\ slept = backoff_secs
              /\ backoff_secs' = IF 2 * backoff_secs <= BackoffMax
                                 THEN 2 * backoff_secs ELSE BackoffMax ]_vars
    /\ [][ polled' = "ok" => backoff_secs' = 1 ]_vars
    /\ [][ backoff_secs' # backoff_secs =>
              (polled' = "ok" \/ (wpc = "backoff" /\ wpc' = "top")) ]_vars

\* three restarts with no 2xx poll in between: the third sleep lasted 4
C14_Witness ==
    /\ wpc = "backoff" /\ sleep_left = 0
    /\ WORKER_RESTARTS = 3 /\ backoff_secs = 4 /\ slept = 4

\* the monitor makes a health poll in this step
HealthPoll(result) == wpc = "mon_health" /\ polled' = result

C16_ConsecutiveFailures ==
    /\ [][ (pc = "probe" /\ failed_probes' # << >>) =>
              current_state'.consecutive_failures =
                 IF current_state.consecutive_failures < SatMax
                 THEN current_state.consecutive_failures + 1 ELSE SatMax ]_vars
    /\ [][ current_state'.consecutive_failures < current_state.consecutive_failures =>
              /\ current_state'.consecutive_failures = 0
              /\ NoFailure(current_state'.last_probe_results)
              /\ pc' = "sleep" ]_vars
    /\ [][ (current_state'.consecutive_failures > current_state.consecutive_failures) =>
              (pc = "probe" /\ failed_probes' # << >>) ]_vars
    /\ [][ (pc # "sleep" /\ pc' = "sleep"
              /\ NoFailure(current_state'.last_probe_results)) =>
              current_state'.consecutive_failures = 0 ]_vars

\* the counter stands at its maximum after one more failing tick
C16_Witness ==
    /\ pc = "sleep" /\ failed_probes # << >>
    /\ current_state.consecutive_failures = SatMax
    /\ state_file.exists /\ state_file.content.consecutive_failures = SatMax

\* C17: a tick that has started runs to its end and persists the state even
\* when a write of state.json or last-probe.json fails; the loop ends only
\* on a shutdown signal.
C17_TickCompletes ==
    /\ [][ (pc \in {"probe", "escalate", "heal", "postheal", "agents",
                    "agentresult", "sos"}) =>
              pc' \in {"probe", "escalate", "heal", "postheal", "agents",
                       "agentresult", "sos", "sleep"} ]_vars
    /\ [][ (pc' \in {"done", "failed"} /\ pc' # pc) =>
              (pc = "top" /\ SHUTDOWN_REQUESTED) ]_vars

\* C18: neither thread waits without a time limit for an external command.
C18_NoUnboundedWait == wpc # "lease_blocked"

\* C19: whenever state.json is read, what load_state returns is the state of
\* the last completed save or the state that is being saved.
C19_WholeSnapshots == load_state(disk) \in {saved, writing}

\* C20: a published snapshot has ok iff the state is Healthy and no probe of
\* last_probe_results failed, failed_probe_count = Len(failed_probes) and at
\* most probe_count; before the first publish ok is false.
C20_Snapshot ==
    /\ [](pc = "start" => (snapshot = HealthSnapshotDefault /\ ~snapshot.ok))
    /\ [](pc # "start" =>
            /\ snapshot.ok <=> (snapshot.state = "Healthy" /\ snapshot.failed_probes = << >>)
            /\ snapshot.failed_probe_count = Len(snapshot.failed_probes)
            /\ snapshot.failed_probe_count <= snapshot.probe_count)
    /\ [][ ((pc' = "sleep" /\ pc # "sleep") \/ pc = "start") =>
             /\ snapshot'.ok <=> (Label' = "Healthy"
                                   /\ NoFailure(current_state'.last_probe_results))
             /\ snapshot'.state = Label'
             /\ snapshot'.probe_count = Len(current_state'.last_probe_results)
             /\ snapshot'.failed_probe_count =
                  Cardinality({i \in 1..Len(current_state'.last_probe_results) :
                                 ~current_state'.last_probe_results[i].passed}) ]_vars

\* a snapshot with two failed probes was published
C20_Witness ==
    /\ pc = "sleep" /\ ~snapshot.ok
    /\ snapshot.failed_probe_count = 2 /\ Len(snapshot.failed_probes) = 2
    /\ snapshot.probe_count > 2

\* C21: a request is answered with 200 and the current HealthSnapshot iff
\* it is GET /health; a request for any other path is answered with 404 and
\* the not_found body.
C21_HealthOnly ==
    [][ (hpc = "handle" /\ hpc' = "written") =>
          IF request.method = "GET" /\ request.path = "/health"
          THEN response' = [status |-> 200, body |-> health_json(snapshot)]
          ELSE response' = [status |-> 404, body |-> NotFoundBody] ]_vars

\* the step is a delivery of SIGHUP: the reload edge is raised
HupStep == RELOAD_REQUESTED' /\ ~RELOAD_REQUESTED

\* C22: SIGTERM and SIGINT set SHUTDOWN_REQUESTED and record the signal
\* number; SIGHUP sets RELOAD_REQUESTED only, so it changes neither
\* SHUTDOWN_REQUESTED nor RECEIVED_SIGNAL nor anything of the two threads;
\* the watchdog loop and the supervisor end, and the child is signalled,
\* only for a reason other than the reload flag.
C22_Signals ==
    /\ [][ RECEIVED_SIGNAL' # RECEIVED_SIGNAL =>
              (RECEIVED_SIGNAL' \in {SIGTERM, SIGINT} /\ SHUTDOWN_REQUESTED') ]_vars
    /\ [][ HupStep =>
              /\ SHUTDOWN_REQUESTED' = SHUTDOWN_REQUESTED
              /\ RECEIVED_SIGNAL' = RECEIVED_SIGNAL
              /\ workerVars' = workerVars
              /\ pc' = pc ]_vars
    /\ [][ (pc' = "done" /\ pc # "done") => SHUTDOWN_REQUESTED ]_vars
    /\ [][ (wpc' = "done" /\ wpc # "done") =>
              (SHUTDOWN_REQUESTED \/ wresult' = "Err") ]_vars
    /\ [][ sent' # sent =>
              \/ Len(children') > Len(children) /\ sent' = << >>
              \/ WorkerLeaves("mon_shutdown") /\ SHUTDOWN_REQUESTED
              \/ HealthPoll("fail")
                   /\ consecutive_health_failures' >= HealthFailuresBeforeRestart
              \/ wpc = "drain" /\ drain_left = 0 /\ sent' = Append(sent, SIGKILL) ]_vars

\* SIGHUP was delivered while a restarted child runs: no shutdown, no signal
\* sent to the child, supervisor and watchdog still running
C22_Witness ==
    /\ RELOAD_REQUESTED /\ ~SHUTDOWN_REQUESTED /\ RECEIVED_SIGNAL = 0
    /\ pc = "top" /\ wpc = "mon_health" /\ wresult = "running"
    /\ Len(children) = 2 /\ ChildStatus = "running" /\ sent = << >>

\* the hard-coded critical probes of the design
HardCritical == {"colima", "docker", "talos_container", "k8s_api", "node_ready",
                 "node_schedulable", "redis", "kubelet_proxy_rbac"}

\* probe names is_critical_probe is asked about: static probes, dynamic
\* probes, and prefixes and extensions of configured service names
ProbeNames ==
    HardCritical
    \cup {"flannel", "voice_agent", "worker", "http:", "launchd:",
          "http:inngest", "http:typesense", "http:worker", "http:api",
          "http:voice_agent", "http:voice", "http:voice_agent_extra",
          "http:mail", "launchd:voice_agent", "launchd:voice",
          "launchd:voice_agent_extra", "launchd:mail", "launchd:mai",
          "launchd:api", "launchd:worker"}

\* some dynamic probe of the list is named n exactly and has critical = true
HasCriticalProbe(probes, n) ==
    \E i \in 1..Len(probes) : probes[i].name = n /\ probes[i].critical

\* C23: is_critical_probe(name) is true iff name is one of the hard-coded
\* critical probes, or name is http:<n> or launchd:<n> and a dynamic probe
\* named exactly n has critical = true.
C23_CriticalIff ==
    \A name \in ProbeNames :
       is_critical_probe(config, name) <=>
          \/ name \in HardCritical
          \/ /\ StartsWith(name, "http:")
             /\ HasCriticalProbe(config.http_service_probes, StripPrefix(name, "http:"))
          \/ /\ StartsWith(name, "launchd:")
             /\ HasCriticalProbe(config.launchd_service_probes,
                                 StripPrefix(name, "launchd:"))

\* the rearrangements of a sequence
Perms(s) ==
    {[i \in 1..Len(s) |-> s[f[i]]] : f \in Permutations(1..Len(s))}

NoDuplicates(s) == \A i, j \in 1..Len(s) : s[i] = s[j] => i = j

\* the labels the design asks for: those of the launchd probes whose name
\* matches a failed launchd:<n> or a failed http:<n> that is not built in
ExpectedTargets(cfg, failed) ==
    {p.label : p \in
       {q \in Range(cfg.launchd_service_probes) :
          \E i \in 1..Len(failed) :
             \/ failed[i].name = "launchd:" \o q.name
             \/ /\ failed[i].name = "http:" \o q.name
                /\ q.name \notin {"inngest", "typesense", "worker"}}}

\* C24: restart_targets_for_failed_services returns a label sequence
\* without duplicates that is the same for every permutation and every
\* duplication of the failed-probe list, and holds exactly the labels of the
\* launchd probes matching a failed launchd:<n> or a failed non-built-in
\* http:<n>.
C24_RestartTargets ==
    call.fn = "restart_targets_for_failed_services" =>
       /\ NoDuplicates(ret)
       /\ Range(ret) = ExpectedTargets(config, call.failed)
       /\ \A p \in Perms(call.failed) :
             restart_targets_for_failed_services(config, p) = ret
       /\ restart_targets_for_failed_services(config, call.failed \o call.failed) = ret
       /\ \A i \in 1..Len(call.failed) :
             restart_targets_for_failed_services(
                 config, Append(call.failed, call.failed[i])) = ret

\* the HTTP probe and the launchd probe of one service failed, next to a
\* built-in HTTP probe: one label
C24_Witness ==
    /\ call.fn = "restart_targets_for_failed_services"
    /\ {call.failed[i].name : i \in 1..Len(call.failed)}
          = {"http:voice_agent", "launchd:voice_agent", "http:worker"}
    /\ call.failed[1].name = "http:worker"
    /\ ret = << "com.joel.voice-agent" >>

\* the number of entries of a probe list that equal the probe p
Occurrences(probes, p) == Cardinality({i \in 1..Len(probes) : probes[i] = p})

\* C25: a reload from an unchanged services file yields the probe lists of
\* the reload before it, and after every successful reload the HTTP list
\* holds each of the built-in probes inngest, typesense and worker exactly
\* once.
C25_ReloadIdempotent ==
    [][ (pc = "top" /\ pc' = "probe" /\ refresh_result' = "true") =>
          /\ reload_service_probes(config', services_file).ok
          /\ reload_service_probes(config', services_file).config = config'
          /\ \A i \in 1..Len(builtin_http_service_probes) :
                Occurrences(config'.http_service_probes,
                            builtin_http_service_probes[i]) = 1 ]_vars

\* the commands run by the step
NewCmds == SubSeq(cmds', Len(cmds) + 1, Len(cmds'))
TimesRun(cs, c) == Cardinality({i \in 1..Len(cs) : cs[i].cmd = c})

\* C27: outside its cooldown the agents tier runs the cloud command first;
\* it runs the local command iff the cloud command did not succeed; it
\* returns Fixed iff the cloud command or, failing that, the local command
\* succeeded, and Failed otherwise; each command runs at most once.
C27_AgentsFallback ==
    [][ (AgentsStep /\ ~AgentsInCooldown) =>
          /\ NewCmds # << >>
          /\ NewCmds[1].cmd = "cloud_agent"
          /\ "local_agent" \in CmdNames(NewCmds) <=> ~NewCmds[1].ok
          /\ CmdNames(NewCmds) \subseteq {"cloud_agent", "local_agent"}
          /\ TimesRun(NewCmds, "cloud_agent") = 1
          /\ TimesRun(NewCmds, "local_agent") <= 1
          /\ agent_outcome' \in {"Fixed", "Failed"}
          /\ agent_outcome' = "Fixed" <=>
                \/ Succeeded(NewCmds, "cloud_agent")
                \/ Failing(NewCmds, "cloud_agent") /\ Succeeded(NewCmds, "local_agent") ]_vars

\* the cloud command failed and the local command fixed it
C27_Witness ==
    /\ pc = "agentresult" /\ agent_outcome = "Fixed"
    /\ Failing(cmds, "cloud_agent") /\ Succeeded(cmds, "local_agent")

\* the kickstart commands the design asks for: one per distinct target label
KickstartTargets(cfg, failed) ==
    {"kickstart gui/uid/" \o l : l \in ExpectedTargets(cfg, failed)}

AllSucceeded(cs) == \A i \in 1..Len(cs) : cs[i].ok

\* C28 as stated: the service heal issues one kickstart per distinct target
\* label and returns Fixed iff every kickstart succeeded, Failed otherwise;
\* it stamps last_heal_time.
C28_EveryKickstart ==
    call.fn = "run_service_heal" =>
       /\ CmdNames(ret.cmds) = KickstartTargets(call.cfg, call.failed)
       /\ Len(ret.cmds) = Cardinality(KickstartTargets(call.cfg, call.failed))
       /\ ret.outcome \in {"Fixed", "Failed"}
       /\ ret.outcome = "Fixed" <=> AllSucceeded(ret.cmds)
       /\ ret.state.last_heal_time = call.t

\* C28 (amended): with a target label and a resolved uid the service heal
\* issues one kickstart per distinct target label and returns Fixed iff
\* every kickstart succeeded; without a target label or without a uid it
\* issues no kickstart and returns Failed; it stamps last_heal_time in
\* every case and changes nothing else of the state.
C28_ServiceHeal ==
    call.fn = "run_service_heal" =>
       LET targets == KickstartTargets(call.cfg, call.failed)
       IN /\ IF targets # {} /\ call.uid_ok
             THEN /\ CmdNames(ret.cmds) = targets
                  /\ Len(ret.cmds) = Cardinality(targets)
                  /\ ret.outcome = IF AllSucceeded(ret.cmds) THEN "Fixed" ELSE "Failed"
             ELSE ret.cmds = << >> /\ ret.outcome = "Failed"
          /\ ret.state = [call.state EXCEPT !.last_heal_time = call.t]

\* two services failed, one kickstart succeeded and one did not: Failed
C28_Witness ==
    /\ call.fn = "run_service_heal"
    /\ Len(ret.cmds) = 2 /\ ret.cmds[1].ok /\ ~ret.cmds[2].ok
    /\ Len(call.failed) = 3
    /\ ret.outcome = "Failed" /\ ret.state.last_heal_time = call.t

\* the watchdog thread takes the step
WatchdogMoves == pc' # pc \/ sleep_step' # sleep_step

\* C26: a reload edge raised while no shutdown is requested ends the tick
\* sleep at its next quantum and is consumed by the next loop head, once,
\* with a forced reload although the file's modification time is unchanged;
\* a shutdown edge ends the tick sleep and the loop without another probe
\* run.
C26_Edges ==
    /\ [][ (pc = "sleep" /\ (RELOAD_REQUESTED \/ SHUTDOWN_REQUESTED)
               /\ WatchdogMoves) =>
              (pc' = "top" /\ sleep_step' = 0) ]_vars
    /\ [][ (pc = "sleep" /\ pc' = "sleep" /\ WatchdogMoves) =>
              (sleep_step' = sleep_step + 1 /\ sleep_step' <= SleepSteps) ]_vars
    /\ [][ (pc = "top" /\ pc' = "probe") =>
              /\ ~SHUTDOWN_REQUESTED
              /\ ~RELOAD_REQUESTED'
              /\ refresh_result' = IF RELOAD_REQUESTED THEN "true" ELSE "false"
              /\ services_file.modified = service_tracker.last_modified ]_vars
    /\ [][ (RELOAD_REQUESTED /\ ~RELOAD_REQUESTED') =>
              (pc = "top" /\ pc' = "probe") ]_vars
    /\ (RELOAD_REQUESTED ~> (~RELOAD_REQUESTED \/ SHUTDOWN_REQUESTED))
    /\ [][ (SHUTDOWN_REQUESTED /\ pc \in {"sleep", "top"} /\ WatchdogMoves) =>
              pc' \in {"top", "done"} ]_vars
    /\ (SHUTDOWN_REQUESTED ~> pc = "done")

\* SIGHUP arrived in the middle of the tick sleep and the next tick made a
\* forced reload of the unchanged file
C26_Witness ==
    /\ pc = "probe" /\ refresh_result = "true" /\ ~RELOAD_REQUESTED
    /\ ~SHUTDOWN_REQUESTED
    /\ services_file.modified = 0 /\ service_tracker.last_modified = 0
    /\ state_file.exists

\* the sync requests and the health polls among the requests of the
\* running call of monitor_child
Puts == { i \in DOMAIN requests : requests[i].method = "PUT" }
Gets == { i \in DOMAIN requests : requests[i].method = "GET" }

\* C29: for each spawned worker child the startup sync PUT is issued at most
\* once and not before startup_sync_delay_secs have elapsed since the spawn;
\* no health GET is issued before that sync attempt; once the sync was
\* attempted, succeeded or not, a pass of the monitor loop that finds
\* health_interval_secs elapsed issues a health GET; successive polls are at
\* least health_interval_secs apart.
C29_SyncThenPolls ==
    /\ [](Cardinality(Puts) <= 1)
    /\ [](\A i \in Puts : requests[i].at - start >= StartupSyncDelaySecs)
    /\ [](\A i \in Gets : \E j \in Puts : j < i)
    /\ [][ (/\ wpc = "mon_health" /\ wpc' # "mon_health"
            /\ synced /\ instant - last_health_check >= HealthIntervalSecs) =>
              /\ Len(requests') = Len(requests) + 1
              /\ requests'[Len(requests')].method = "GET"
              /\ requests'[Len(requests')].at = instant ]_vars
    /\ [](\A i \in Gets : \A j \in Gets :
            i < j => requests[j].at - requests[i].at >= HealthIntervalSecs)

\* the second child was spawned later than the first; its sync request
\* failed and two health polls followed
C29_Witness ==
    /\ Len(children) = 2
    /\ start > 0
    /\ Len(requests) = 3
    /\ requests[1].method = "PUT" /\ ~requests[1].ok
    /\ requests[2].method = "GET"
    /\ requests[3].method = "GET"

\* the output of a probe result ends with the marker of run_all_probes
HasCriticalSuffix(output) == output = "out [critical]"

\* the positions at which last_probe_results holds the results of a probe
\* run of the running tick, made with the tick's config
InTick == pc \in {"escalate", "heal", "postheal", "agents", "agentresult", "sos"}

\* C30: every probe result of a tick carries the ` [critical]` suffix iff the
\* probe failed and is_critical_probe(name) holds for the tick's config, so
\* a passed probe never carries it and the suffix agrees with the
\* criticality of the escalation decision, also for a user-defined probe
\* that has the name of a built-in one.
C30_SuffixIffCritical ==
    InTick =>
       \A i \in 1..Len(current_state.last_probe_results) :
          LET r == current_state.last_probe_results[i]
          IN HasCriticalSuffix(r.output) <=>
                (~r.passed /\ is_critical_probe(config, r.name))

\* the tick has ended: the state was published and saved and the thread sleeps
TickEnded == pc = "sleep"

\* C31: starting from the default state, at the end of every tick the state
\* that is published and saved is Healthy iff its last_probe_results hold no
\* failed probe iff its consecutive_failures is 0.
C31_HealthyIffClean ==
    TickEnded =>
       /\ snapshot = publish_state(current_state)
       /\ state_file = save_state(current_state)
       /\ (Label = "Healthy") <=> NoFailure(current_state.last_probe_results)
       /\ (Label = "Healthy") <=> (current_state.consecutive_failures = 0)
       /\ snapshot.ok <=> (snapshot.consecutive_failures = 0)

\* a clean tick has brought the state back from SOS, and a failing tick has
\* ended with the counter above zero
C31_Witness ==
    /\ TickEnded /\ tick_from = "SOS" /\ Label = "Healthy"
    /\ current_state.consecutive_failures = 0
    /\ current_state.last_agent_time # None


\* the step invokes a tier function
Invokes(tier_names) == tiers' # tiers /\ LastTier(tiers') \in tier_names
Alarmed(label) == label \in {"Critical", "SOS"}

\* C32: once the state is Critical or SOS it stays so until a clean tick
\* returns it to Healthy, and in the ticks in between neither a heal tier nor
\* the agents tier is invoked; the SOS tier is invoked only in a tick whose
\* escalation step finds the state Critical or SOS, in which no heal and no
\* agents tier is invoked, so never in the tick that first enters Critical.
C32_AlarmedTicks ==
    /\ [][ (Alarmed(Label) /\ ~Alarmed(Label')) =>
              (Label' = "Healthy" /\ CleanTickStep) ]_vars
    /\ [][ Invokes(HealTiers \cup {"agents"}) =>
              (~Alarmed(tick_from) /\ ~Alarmed(Label) /\ "sos" \notin Range(tiers)) ]_vars
    /\ [][ Invokes({"sos"}) =>
              /\ pc = "sos" /\ Alarmed(Label) /\ Alarmed(tick_from)
              /\ tiers = << >>
              /\ pc' = "sleep" ]_vars
    /\ [][ (~Alarmed(Label) /\ Label' = "Critical") =>
              ("sos" \notin Range(tiers') /\ pc' = "sleep") ]_vars

\* a tick that started in SOS has invoked the SOS tier and nothing else
C32_Witness ==
    /\ pc = "sleep" /\ tick_from = "SOS" /\ tiers = << "sos" >>
    /\ Label = "SOS" /\ failed_probes # << >>


\* C33: a tick that starts in Investigating and escalates moves to Failed
\* and runs a heal tier, whatever last_heal_time is; an agents tier in
\* cooldown runs no command and the tick ends in Investigating; the state
\* becomes Critical only in a tick in which the agents tier ran its
\* commands.
C33_CooldownLoop ==
    /\ [][ (pc = "escalate" /\ Label = "Investigating") =>
              (Label' = "Failed" /\ pc' = "heal") ]_vars
    /\ [][ (pc = "heal" /\ pc' # "heal") =>
              /\ Invokes(HealTiers)
              /\ current_state'.last_heal_time = now ]_vars
    /\ [][ (AgentsStep /\ AgentsInCooldown) =>
              /\ Label' = "Investigating"
              /\ agent_outcome' = "Cooldown"
              /\ cmds' = cmds ]_vars
    /\ []((/\ pc = "sleep" /\ tick_from = "Investigating" /\ should_escalate
           /\ failed_probes # << >> /\ agent_outcome = "Cooldown") =>
              /\ Label = "Investigating"
              /\ Len(tiers) = 2 /\ tiers[1] \in HealTiers /\ tiers[2] = "agents"
              /\ current_state.last_heal_time # None
              /\ "cloud_agent" \notin CmdNames(cmds)
              /\ state_file.content.current_state = "Investigating")
    /\ [][ (Label' = "Critical" /\ Label # "Critical") =>
              /\ pc = "agentresult"
              /\ "cloud_agent" \in CmdNames(cmds)
              /\ current_state.last_agent_time = agents_run_at ]_vars

\* two ticks in a row have ended in Investigating with the agents tier in
\* cooldown, each after a heal tier
C33_Witness ==
    /\ pc = "sleep" /\ tick_from = "Investigating" /\ Label = "Investigating"
    /\ agent_outcome = "Cooldown" /\ Len(tiers) = 2
    /\ failed_probes # << >>


(* ------------------------- a persistent outage ------------------------- *)
\* From some loop head on a critical probe fails for good.
OutageBegins ==
    /\ pc = "top"
    /\ ~outage
    /\ outage' = TRUE
    /\ UNCHANGED << pc, current_state, critical_since, cfgVars, services_file,
                    sigVars, now, failed_probes, should_escalate, heal_outcome,
                    agent_outcome, snapshot, state_file, tiers, cmds, histVars >>
    /\ UNCHANGED << workerVars, monitorVars, statusVars, healthVars, callVars, main_result,
                    sleep_step >>

\* What the commands return during the outage: every probe run (main.rs
\* 169, 219, 247) reports a critical failure, so no re-probe is clean; the
\* two agent commands fail (escalation.rs 192-220), so the agents tier is
\* never Fixed; one SOS channel delivers (escalation.rs 262-296), so the SOS
\* tier never reports Failed.
OutageStep ==
    outage =>
       /\ pc \in {"probe", "postheal"}
            => collect_critical_failures(failed_probes', config) # << >>
       /\ pc = "agents" => agent_outcome' # "Fixed"
       /\ pc = "sos" => sos_outcome' # "Failed"

\* one step of the tick, the commands answering as the outage dictates
OutageTick == Tick /\ OutageStep

NextOutage == Startup \/ OutageTick \/ Advance \/ OutageBegins

\* the watchdog thread takes its next step
LadderAdvance == pc' \in WatchdogPcs

\* the clock moves on by a second; it stops at MaxTime
ClockTick == now < MaxTime /\ now' = now + 1

\* The ladder during an outage.  The watchdog thread keeps running (every
\* command it waits for is bounded by a timeout) and the clock keeps
\* advancing between the ticks, up to MaxTime.
SpecOutage ==
    InitSignals /\ [][NextOutage]_vars
    /\ WF_pc(LadderAdvance) /\ SF_now(ClockTick)

\* the watchdog thread always has a next step during the outage
OutageNeverStuck == ENABLED << Startup \/ OutageTick >>_vars

\* the agents cooldown and the SOS gates expire before the clock stops
AgentsDueInTime ==
    \/ current_state.last_agent_time = None
    \/ current_state.last_agent_time + config.agent_cooldown_secs <= MaxTime
SosDueInTime ==
    /\ critical_since # None
    /\ critical_since + config.critical_threshold_secs <= MaxTime
    /\ \/ current_state.last_sos_time = None
       \/ current_state.last_sos_time + config.sos_cooldown_secs <= MaxTime

\* escalation.rs 232-251: both gates of run_sos are open
SosDue ==
    /\ critical_since # None
    /\ now - critical_since >= config.critical_threshold_secs
    /\ \/ current_state.last_sos_time = None
       \/ now - current_state.last_sos_time >= config.sos_cooldown_secs

\* an SOS was delivered once the threshold had elapsed since critical_since
SosDelivered ==
    /\ Label = "SOS"
    /\ sos_outcome = "Fixed"
    /\ sos_sent_at = now
    /\ current_state.last_sos_time = now
    /\ critical_since # None
    /\ now - critical_since >= config.critical_threshold_secs
    /\ \E c \in ChannelCmds : Succeeded(cmds, c)

\* C34: once a critical probe fails on every probe run, the agent commands
\* fail, an SOS channel delivers and the clock keeps advancing, the state
\* becomes Critical, and from Critical, when the threshold (and the SOS
\* cooldown of an earlier SOS) can elapse, an SOS is delivered and the state
\* becomes SOS.  The tick in which the agents fail enters Critical and
\* stamps critical_since; the SOS tier delivers in the tick that finds both
\* of its gates open.
C34_OutageEndsInSos ==
    /\ (outage /\ pc = "top" /\ ~Alarmed(Label) /\ AgentsDueInTime)
          ~> (outage /\ Label = "Critical" /\ critical_since # None)
    /\ (outage /\ Label = "Critical" /\ SosDueInTime) ~> SosDelivered
    /\ [][outage /\ pc = "agentresult" /\ agent_outcome = "Failed" /\ pc' = "sleep"
            => Label' = "Critical" /\ critical_since' = now]_vars
    /\ [][outage /\ pc = "sos" /\ pc' = "sleep" /\ SosDue => SosDelivered']_vars

C34_Witness ==
    /\ outage
    /\ SosDelivered
    /\ tick_from = "Critical"
    /\ agents_run_at # None
    /\ prev_sos_outcome = "Cooldown"


\* C35: from the default state, Critical and SOS always carry a
\* last_agent_time and a critical_since; critical_since is stamped, with the
\* time of that step, only by the step that enters Critical, and it keeps
\* its value for as long as the label stays Critical or SOS, so the
\* threshold gate of every SOS tier is measured from that entry.
C35_CriticalSinceAnchored ==
    /\ [](Alarmed(Label) =>
            /\ current_state.last_agent_time # None
            /\ critical_since # None
            /\ current_state.last_agent_time <= critical_since
            /\ critical_since <= now)
    /\ [][critical_since' # critical_since /\ critical_since' # None =>
            /\ pc = "agentresult"
            /\ ~Alarmed(Label)
            /\ Label' = "Critical"
            /\ critical_since' = now]_vars
    /\ [][Alarmed(Label) /\ Alarmed(Label') =>
            critical_since' = critical_since]_vars
    /\ [][~Alarmed(Label) /\ Alarmed(Label') =>
            Label' = "Critical" /\ critical_since' = now]_vars
    /\ [][SosStep /\ sos_outcome' # "Cooldown" =>
            /\ critical_since' = critical_since
            /\ now - critical_since >= config.critical_threshold_secs]_vars

C35_Witness ==
    /\ pc = "sleep"
    /\ tick_from = "SOS"
    /\ Label = "SOS"
    /\ tiers = << "sos" >>
    /\ critical_since # None
    /\ now - critical_since >= 2
    /\ current_state.last_sos_time > critical_since


\* C36: from the default state, the label Failed exists only between the
\* escalation and the agents tier of one tick; the status snapshot and
\* state.json never show Failed, and no tick ends, starts or probes under it.
C36_FailedIsTransient ==
    /\ snapshot.state # "Failed"
    /\ state_file.content.current_state # "Failed"
    /\ Label = "Failed" => pc \in {"heal", "postheal", "agents"}
    /\ pc \in {"heal", "postheal"} => Label = "Failed"
    /\ TickEnded => /\ Label # "Failed"
                    /\ snapshot.state = Label
                    /\ state_file.exists
                    /\ state_file.content.current_state = Label

C36_Witness ==
    /\ TickEnded
    /\ tiers # << >>
    /\ tiers[1] \in HealTiers
    /\ heal_outcome = "Fixed"
    /\ snapshot.state \in {"Healthy", "Investigating", "Critical"}
    /\ state_file.content.current_state = snapshot.state


(* ------------------------- fn main and its threads --------------------- *)
\* the result of run_watchdog_loop, once it has returned
LoopReturned == pc \in {"done", "failed"}
loop_result == IF pc = "failed" THEN "Err" ELSE "Ok"

\* variant: the error of the supervisor is reported first
main_match_worker_first(loop, worker) ==
    IF worker = "Err" THEN "Err(worker)"
    ELSE IF loop = "Err" THEN "Err(loop)"
    ELSE "Ok"

\* main.rs 110-119: the Result of main from the results of the two threads
main_match(loop, worker) ==
    IF loop = "Err" THEN "Err(loop)"
    ELSE IF worker = "Err" THEN "Err(worker)"
    ELSE "Ok"

\* main.rs 106-108: run_watchdog_loop returned; main stores
\* SHUTDOWN_REQUESTED and calls worker_handle.join()
MainRequestShutdown ==
    /\ main_result = "running"
    /\ LoopReturned
    /\ SHUTDOWN_REQUESTED' = TRUE
    /\ main_result' = "joining"
    /\ UNCHANGED << pc, current_state, critical_since, cfgVars, services_file,
                    RELOAD_REQUESTED, RECEIVED_SIGNAL, now, failed_probes,
                    should_escalate, heal_outcome, agent_outcome, snapshot,
                    state_file, tiers, cmds, histVars, workerVars, monitorVars,
                    statusVars, healthVars, callVars, outage, sleep_step >>

\* main.rs 110-119: join returns when run_worker_supervisor has returned;
\* main returns and the process exits
MainJoin ==
    /\ main_result = "joining"
    /\ wresult # "running"
    /\ main_result' = main_match(loop_result, wresult)
    /\ UNCHANGED << pc, current_state, critical_since, cfgVars, services_file,
                    sigVars, now, failed_probes, should_escalate, heal_outcome,
                    agent_outcome, snapshot, state_file, tiers, cmds, histVars,
                    workerVars, monitorVars, statusVars, healthVars, callVars,
                    outage, sleep_step >>

\* the process has exited
Exited == main_result \in {"Ok", "Err(loop)", "Err(worker)"}

\* main.rs 51-52: signal_handler(SIGTERM | SIGINT), at any point before the
\* process exits
SignalBeforeExit ==
    /\ ~Exited
    /\ \E sig \in {SIGTERM, SIGINT} :
         /\ sig # RECEIVED_SIGNAL
         /\ RECEIVED_SIGNAL' = sig
    /\ SHUTDOWN_REQUESTED' = TRUE
    /\ UNCHANGED << watchdogVars, workerVars, monitorVars >>

\* a tick in which every probe passes
CleanProbes == RunProbes /\ failed_probes' = << >>

NextMain ==
    \/ Startup \/ LoopTop \/ CleanProbes \/ Sleep \/ LoopExit \/ WriteFailed
    \/ SupervisorTop \/ SpawnWorker \/ MonitorShutdownCheck \/ MonitorTryWait
    \/ MonitorHealth \/ ShutdownChild \/ CountRestart \/ BackoffSleep
    \/ ChildExit \/ SignalBeforeExit \/ MainRequestShutdown \/ MainJoin

\* fn main with the watchdog thread and the supervisor thread: the probes
\* pass, and the watchdog loop returns at a shutdown signal or with the
\* error of a failed write
SpecMain == InitSignals /\ [][NextMain]_vars


\* C37: main leaves run_watchdog_loop only when the loop has returned, with
\* Ok or with an error; it then sets SHUTDOWN_REQUESTED and joins the
\* supervisor, so the process exits only after run_worker_supervisor has
\* returned.  A supervisor that sees the flag in its monitor loop signals
\* its child with the recorded signal, SIGTERM if none was recorded; when
\* the supervisor has returned, and so when the process exits, every child
\* it spawned has been waited for.  An error of the loop is the result of
\* main whatever the supervisor returned.
C37_JoinBeforeExit ==
    /\ [](main_result # "running" => SHUTDOWN_REQUESTED /\ LoopReturned)
    /\ [][main_result = "running" /\ main_result' # "running" =>
            /\ LoopReturned
            /\ SHUTDOWN_REQUESTED'
            /\ main_result' = "joining"]_vars
    /\ [][main_result = "joining" /\ main_result' # "joining" =>
            wresult # "running" /\ Exited']_vars
    /\ [][wpc = "mon_shutdown" /\ sent' # sent =>
            /\ SHUTDOWN_REQUESTED
            /\ sent = << >>
            /\ sent' = << IF RECEIVED_SIGNAL = 0 THEN SIGTERM
                          ELSE RECEIVED_SIGNAL >>]_vars
    /\ [](wresult # "running" => Unreaped = {})
    /\ [](Exited =>
            /\ wresult # "running"
            /\ Unreaped = {}
            /\ pc = "failed" <=> main_result = "Err(loop)"
            /\ main_result = "Err(worker)" <=> (pc = "done" /\ wresult = "Err")
            /\ main_result = "Ok" <=> (pc = "done" /\ wresult = "Ok"))

C37_Witness ==
    /\ main_result = "Err(loop)"
    /\ pc = "failed"
    /\ RECEIVED_SIGNAL = 0
    /\ wresult = "Ok"
    /\ outcome = "Shutdown"
    /\ sent = << SIGTERM, SIGKILL >>
    /\ children # << >>


\* the heal tier is about to run the service heal for failures that map to
\* no configured launchd label
NoRestartTargets ==
    /\ pc = "heal"
    /\ should_use_service_heal(failed_probes, config)
    /\ restart_targets_for_failed_services(config, failed_probes) = << >>

\* C38: when the service heal is selected and the failed services have no
\* launchd label, the tier runs no command at all (no kickstart, no heal
\* script), returns Failed and stamps last_heal_time; the tick goes on to the
\* agents tier, and at its end the only tiers run are service_heal and
\* agents and the only commands those of the agents.
C38_NoTargetsNoKickstart ==
    /\ [][NoRestartTargets =>
            /\ tiers = << >>
            /\ tiers' = << "service_heal" >>
            /\ cmds' = cmds
            /\ cmds = << >>
            /\ heal_outcome' = "Failed"
            /\ current_state'.last_heal_time = now
            /\ current_state' = [current_state EXCEPT !.last_heal_time = now]
            /\ pc' = "agents"]_vars
    /\ [](/\ pc \in {"agents", "agentresult", "sleep"}
          /\ tiers # << >>
          /\ tiers[1] = "service_heal"
          /\ restart_targets_for_failed_services(config, failed_probes) = << >>
          /\ heal_outcome = "Failed"
          => /\ tiers = IF pc = "agents" THEN << "service_heal" >>
                        ELSE << "service_heal", "agents" >>
             /\ CmdNames(cmds) \subseteq {"cloud_agent", "local_agent"}
             /\ current_state.last_heal_time # None
             /\ pc # "agents" => agent_outcome # "none")

C38_Witness ==
    /\ pc = "sleep"
    /\ tiers = << "service_heal", "agents" >>
    /\ restart_targets_for_failed_services(config, failed_probes) = << >>
    /\ \E i \in 1..Len(failed_probes) : StartsWith(failed_probes[i].name, "http:")
    /\ heal_outcome = "Failed"
    /\ current_state.last_heal_time = now
    /\ "cloud_agent" \in CmdNames(cmds)


(* ---------------- the supervisor under any [worker] table --------------- *)
\* config.rs 434-440: parse_toml_int accepts every u64 for
\* health_failures_before_restart and restart_backoff_max_secs
WorkerConfigs ==
    [health_failures_before_restart : 0..HealthFailuresBeforeRestart,
     restart_backoff_max_secs : 0..BackoffMax]

InitWorkerConfigs ==
    /\ \E w \in WorkerConfigs : InitWith([DefaultConfig EXCEPT !.worker = w])
    /\ services_file.lines = DefaultServices

NextSupervisor ==
    \/ SupervisorTop \/ SpawnWorker \/ MonitorShutdownCheck \/ MonitorTryWait
    \/ MonitorHealth \/ ShutdownChild \/ CountRestart \/ BackoffSleep
    \/ ChildExit \/ WatchdogReturned

\* the supervisor thread, started with any values of the two settings
SpecSupervisor == InitWorkerConfigs /\ [][NextSupervisor]_vars

\* C39: the backoff the supervisor starts to sleep before a restart is at
\* least 1 second and at most restart_backoff_max_secs, for every
\* configuration and after any exits, health restarts and 2xx polls.
C39_BackoffInRange ==
    [][wpc = "restart" /\ wpc' = "backoff" =>
          /\ sleep_left' = backoff_secs
          /\ backoff_secs >= 1
          /\ backoff_secs <= config.worker.restart_backoff_max_secs]_vars

\* C40: for every health_failures_before_restart, a health poll answered
\* with 2xx does not make the monitor terminate the child; the monitor
\* starts a health-triggered shutdown_child only in an iteration whose poll
\* was non-2xx.
C40_OkPollNeverRestarts ==
    /\ [][HealthPoll("ok") => sent' = sent /\ wpc' = "mon_shutdown"]_vars
    /\ [][wpc = "mon_health" /\ wpc' = "drain" => polled' = "fail"]_vars

====
